---- MODULE Spec2Model ----
(***************************************************************************)
(* A model of the data sanitization engine of @cp949/web-logger:           *)
(* the sensitive key / pattern registries, the value masker, the regex     *)
(* timeout guard, the two caches and the recursive sanitizer.              *)
(*                                                                         *)
(* JavaScript strings are TLA+ strings (Len, \o and SubSeq act on them).   *)
(* JavaScript values are tagged records; objects live in a heap indexed    *)
(* by identity.                                                            *)
(***************************************************************************)
EXTENDS Integers, Sequences, FiniteSets, TLC

VARIABLES
    sensitiveKeys,     \* SensitiveKeysManager.sensitiveKeys : Set<string>
    patterns,          \* SensitivePatternsManager.patterns, in own-property order
    suppressWarnings,  \* SensitivePatternsManager.suppressWarnings
    sanitizeCache,     \* cache.ts: WeakMap<object, unknown>
    maskValueCache,    \* cache.ts: LRUCache<string,string>, oldest entry first
    heap,              \* the objects of the host program, by identity
    last,              \* the last operation: its name, input, result and walk log
    stale,             \* the cache entries that predate the last registry mutation
    inserted,          \* the names of the patterns, in the order of their insertion
    earlier,           \* for each value sanitized so far, the result of its latest call
    nOps,              \* number of operations performed so far
    host,              \* the build and the environment: __DEV__/NODE_ENV, seed, env variable
    globalLevel,       \* globalThis.__WEB_LOGGER_LOG_LEVEL__ ("" while not set)
    console,           \* the calls made on the console, in order
    loggers,           \* the WebLogger instances: prefix and enableMasking of each
    used               \* for each key, the time of its last direct get or set on the mask cache

logVars == <<host, globalLevel, console, loggers>>

vars == <<sensitiveKeys, patterns, suppressWarnings, sanitizeCache, maskValueCache,
          heap, last, stale, inserted, earlier, nOps, host, globalLevel, console, loggers,
          used>>

-----------------------------------------------------------------------------
(* Program constants *)

MAX_STRING_LENGTH == 5000
REGEX_TIMEOUT_MS == 100
MAX_DEPTH == 10
LRU_MAX_SIZE == 1000

UNSAFE_KEYS == <<"__proto__", "constructor", "prototype">>

TRUNCATED_MARK == "... [TRUNCATED]"

-----------------------------------------------------------------------------
(* String primitives of the JavaScript runtime *)

Char(s, i) == SubSeq(s, i, i)

UpperLetters == "ABCDEFGHIJKLMNOPQRSTUVWXYZ"
LowerLetters == "abcdefghijklmnopqrstuvwxyz"

\* the lower-case letter of each upper-case letter, and the reverse
UpperToLower ==
    [c \in {Char(UpperLetters, i) : i \in 1..26} |->
        Char(LowerLetters, CHOOSE i \in 1..26 : Char(UpperLetters, i) = c)]
LowerToUpper ==
    [c \in {Char(LowerLetters, i) : i \in 1..26} |->
        Char(UpperLetters, CHOOSE i \in 1..26 : Char(LowerLetters, i) = c)]

LowerChar(c) == IF c \in DOMAIN UpperToLower THEN UpperToLower[c] ELSE c

UpperChar(c) == IF c \in DOMAIN LowerToUpper THEN LowerToUpper[c] ELSE c

\* s.toLowerCase() and s.toUpperCase(), half by half
RECURSIVE ToLowerCase(_)
ToLowerCase(s) ==
    IF Len(s) = 0 THEN ""
    ELSE IF Len(s) = 1 THEN LowerChar(s)
    ELSE ToLowerCase(SubSeq(s, 1, Len(s) \div 2))
         \o ToLowerCase(SubSeq(s, Len(s) \div 2 + 1, Len(s)))

RECURSIVE ToUpperCase(_)
ToUpperCase(s) ==
    IF Len(s) = 0 THEN ""
    ELSE IF Len(s) = 1 THEN UpperChar(s)
    ELSE ToUpperCase(SubSeq(s, 1, Len(s) \div 2))
         \o ToUpperCase(SubSeq(s, Len(s) \div 2 + 1, Len(s)))

\* s.slice(0, n)
Slice0(s, n) == SubSeq(s, 1, IF n < Len(s) THEN n ELSE Len(s))

\* the sub-string of s that starts at position i (1-based) and has the length of sub
MatchAt(s, sub, i) == i >= 1 /\ i + Len(sub) - 1 <= Len(s) /\ SubSeq(s, i, i + Len(sub) - 1) = sub

\* s.includes(sub)
Includes(s, sub) == \E i \in 1..(Len(s) - Len(sub) + 1) : MatchAt(s, sub, i)

\* 1-based s.indexOf(sub) from position from; 0 when absent
IndexOfFrom(s, sub, from) ==
    LET hits == {i \in from..(Len(s) - Len(sub) + 1) : MatchAt(s, sub, i)}
    IN  IF hits = {} THEN 0 ELSE CHOOSE i \in hits : \A j \in hits : i <= j

\* s.split(sep) for a one-character separator
RECURSIVE Split(_, _)
Split(s, sep) ==
    LET i == IndexOfFrom(s, sep, 1)
    IN  IF i = 0 THEN <<s>>
        ELSE <<SubSeq(s, 1, i - 1)>> \o Split(SubSeq(s, i + 1, Len(s)), sep)

Twice(h) == h \o h

\* s.repeat(n)
RECURSIVE Repeat(_, _)
Repeat(s, n) ==
    IF n = 0 THEN ""
    ELSE IF n % 2 = 0 THEN Twice(Repeat(s, n \div 2))
    ELSE s \o Repeat(s, n - 1)

SeqToSet(q) == {q[i] : i \in 1..Len(q)}

-----------------------------------------------------------------------------
(* JavaScript values.                                                      *)
(* A value is a tagged record: a primitive, or a reference into the heap.  *)

Str(s)  == [t |-> "str", s |-> s]
Num(n)  == [t |-> "num", n |-> n]
Null    == [t |-> "null"]
Undef   == [t |-> "undef"]
Bool(b) == [t |-> "bool", b |-> b]
\* a pattern map handed to the registry, by its own enumerable properties
PatternMap(props) == [t |-> "patterns", props |-> props]
Ref(i)  == [t |-> "ref", id |-> i]
\* the completion of a call that ended by an exception propagating out of it
Throw   == [t |-> "throw"]

IsStr(v) == v.t = "str"
IsRef(v) == v.t = "ref"

\* A property list: own enumerable string-keyed properties, in property order
Prop(k, v) == [k |-> k, v |-> v]

Keys(props) == [i \in 1..Len(props) |-> props[i].k]
HasKey(props, k) == \E i \in 1..Len(props) : props[i].k = k
Get(props, k) == props[CHOOSE i \in 1..Len(props) : props[i].k = k].v

Digits == "0123456789"
IsDigit(c) == \E i \in 1..10 : Char(Digits, i) = c
DigitVal(c) == (CHOOSE i \in 1..10 : Char(Digits, i) = c) - 1

RECURSIVE ParseDigits(_)
ParseDigits(s) ==
    IF Len(s) = 0 THEN 0
    ELSE 10 * ParseDigits(SubSeq(s, 1, Len(s) - 1)) + DigitVal(Char(s, Len(s)))

\* A property name that is a canonical array index: such names are listed
\* first, in ascending numeric order, by Object.entries and by object spread.
\* (Names of up to 9 digits; every model name is shorter.)
IsArrayIndex(k) ==
    /\ Len(k) \in 1..9
    /\ \A i \in 1..Len(k) : IsDigit(Char(k, i))
    /\ (Len(k) = 1 \/ Char(k, 1) # "0")

\* obj[k] = v on a property list: an existing name keeps its place, a new array
\* index goes among the indices in numeric order, any other new name goes last
DefineProp(props, k, v) ==
    IF HasKey(props, k)
    THEN [i \in 1..Len(props) |-> IF props[i].k = k THEN Prop(k, v) ELSE props[i]]
    ELSE IF IsArrayIndex(k)
    THEN LET before == {i \in 1..Len(props) :
                          IsArrayIndex(props[i].k) /\ ParseDigits(props[i].k) < ParseDigits(k)}
             n == Cardinality(before)
         IN  SubSeq(props, 1, n) \o <<Prop(k, v)>> \o SubSeq(props, n + 1, Len(props))
    ELSE Append(props, Prop(k, v))

\* { ...a, ...b } and object literals: the properties of b defined one by one onto a
RECURSIVE Spread(_, _)
Spread(a, b) ==
    IF Len(b) = 0 THEN a
    ELSE Spread(DefineProp(a, b[1].k, b[1].v), Tail(b))

\* the object an object literal with these entries evaluates to
ObjectLiteral(entries) == Spread(<<>>, entries)

-----------------------------------------------------------------------------
(* Regular expressions.                                                    *)
(* The RegExp engine is the JavaScript runtime's.  A pattern is modelled   *)
(* by the finite set of sub-strings of the model's strings that it         *)
(* matches (lits), by whether it carries the g flag, and by whether using  *)
(* it raises an error (a RegExp subclass whose Symbol.replace throws).      *)
(* A registry value that is not a RegExp has isRegExp = FALSE.             *)

RegExp(lits) == [isRegExp |-> TRUE, lits |-> lits, g |-> TRUE, throws |-> FALSE]
ThrowingRegExp == [isRegExp |-> TRUE, lits |-> {}, g |-> TRUE, throws |-> TRUE]
NotARegExp == [isRegExp |-> FALSE, lits |-> {}, g |-> FALSE, throws |-> FALSE]

\* positions of s where some literal of the pattern matches
MatchPositions(s, lits) == {i \in 1..Len(s) : \E l \in lits : MatchAt(s, l, i)}

\* the (longest) literal matched at position i
MatchedAt(s, lits, i) ==
    CHOOSE l \in lits : MatchAt(s, l, i) /\ \A m \in lits : MatchAt(s, m, i) => Len(m) <= Len(l)

Min(S) == CHOOSE x \in S : \A y \in S : x <= y

\* s.replace(re, tag): leftmost matches, not overlapping; all of them with the g
\* flag, the first one only without it.  The scan keeps the text produced so
\* far (out), the position after the last match (pos) and the number of
\* matches replaced (n).
ReplaceStart == [out |-> "", pos |-> 1, n |-> 0]

HitsFrom(hits, pos) == {h \in hits : h >= pos}

\* the match at position h is replaced
ReplaceStep(acc, s, re, tag, h) ==
    [out |-> acc.out \o SubSeq(s, acc.pos, h - 1) \o tag,
     pos |-> h + Len(MatchedAt(s, re.lits, h)),
     n   |-> acc.n + 1]

RECURSIVE ReplaceScan(_, _, _, _, _)
ReplaceScan(acc, s, re, tag, hits) ==
    IF HitsFrom(hits, acc.pos) = {} \/ (~re.g /\ acc.n > 0)
    THEN acc.out \o SubSeq(s, acc.pos, Len(s))
    ELSE ReplaceScan(ReplaceStep(acc, s, re, tag, Min(HitsFrom(hits, acc.pos))),
                     s, re, tag, hits)

StringReplace(s, re, tag) ==
    ReplaceScan(ReplaceStart, s, re, tag, MatchPositions(s, re.lits))

-----------------------------------------------------------------------------
(* constants.ts *)

\* The strings of the model that each default pattern matches:
\*   email    user@example.com, a@b.cc
\*   card     1234-5678-9012-3456
\*   phone    010-1234-5678
\*   ssn      900101-1234567
\*   jwt      Bearer aa.bb.cc
\*   apiKey   a run of 5000 letters a (a run of 32 or more letters and digits)
\*   password password: "x"
DEFAULT_SENSITIVE_PATTERNS ==
    << Prop("email",    RegExp({"user@example.com", "a@b.cc"})),
       Prop("card",     RegExp({"1234-5678-9012-3456"})),
       Prop("phone",    RegExp({"010-1234-5678"})),
       Prop("ssn",      RegExp({"900101-1234567"})),
       Prop("jwt",      RegExp({"Bearer aa.bb.cc"})),
       Prop("apiKey",   RegExp({Repeat("a", MAX_STRING_LENGTH)})),
       Prop("password", RegExp({"password: \"x\""})) >>

-----------------------------------------------------------------------------
(* managers/SensitiveKeysManager.ts *)

defaultKeys ==
    << "password", "pwd", "passwd", "token", "apiKey", "api_key", "accessToken",
       "refreshToken", "authToken", "authorization",
       "email", "phone", "phoneNumber", "mobile", "ssn", "socialSecurityNumber",
       "residentNumber", "resident_number",
       "creditCard", "cardNumber", "card_number",
       "secret", "secretKey", "privateKey", "private_key", "sessionId", "session_id",
       "cookie", "cookies" >>

\* new Set(this.defaultKeys.map((key) => key.toLowerCase()))
DefaultKeySet == {ToLowerCase(defaultKeys[i]) : i \in 1..Len(defaultKeys)}

\* isSensitive(key) against the key set ks
SomeIncluded(ks, lowerKey) == \E sensitive \in ks : Includes(lowerKey, sensitive)

IsSensitive(ks, key) == Len(key) > 0 /\ SomeIncluded(ks, ToLowerCase(key))

-----------------------------------------------------------------------------
(* cache.ts: LRUCache, as the entries of its Map, oldest first *)

LRUHas(c, k) == \E i \in 1..Len(c) : c[i].k = k
LRUValue(c, k) == c[CHOOSE i \in 1..Len(c) : c[i].k = k].v
LRUDelete(c, k) == SelectSeq(c, LAMBDA e : e.k # k)

\* get(k) that leaves the entry where it is
LRUGetInPlace(c, k) == c

\* the cache after get(k): a hit moves the entry to the end
LRUGet(c, k) ==
    IF LRUHas(c, k) THEN Append(LRUDelete(c, k), Prop(k, LRUValue(c, k))) ELSE c

\* the cache after set(k, v)
LRUSet(c, k, v, maxSize) ==
    LET d == IF LRUHas(c, k) THEN LRUDelete(c, k)
             ELSE IF Len(c) >= maxSize /\ Len(c) > 0 THEN Tail(c)
             ELSE c
    IN  Append(d, Prop(k, v))

-----------------------------------------------------------------------------
(* masking.ts: applyRegexWithTimeout *)

\* The wall clock: prof[i] is the number of milliseconds that the i-th
\* iteration of the loop takes (0 past the end of prof).
Cost(prof, i) == IF i <= Len(prof) THEN prof[i] ELSE 0

\* The state of the loop: the text so far, the milliseconds elapsed since
\* startTime, the names of the patterns whose replace ran, the names of those
\* that raised, and whether the budget ended the loop.
GuardStart(text) ==
    [text |-> text, elapsed |-> 0, applied |-> <<>>, failed |-> <<>>, timedOut |-> FALSE]

\* an iteration whose failing replace ends the loop
GuardStepStopsAtError(g, pats, i, prof, timeoutMs) ==
    CASE g.elapsed > timeoutMs -> [g EXCEPT !.timedOut = TRUE]
      [] g.elapsed <= timeoutMs /\ pats[i].v.throws ->
           [g EXCEPT !.timedOut = TRUE, !.failed = Append(@, pats[i].k)]
      [] OTHER ->
           [g EXCEPT !.text = StringReplace(@, pats[i].v, "[" \o ToUpperCase(pats[i].k) \o "]"),
                     !.elapsed = @ + Cost(prof, i),
                     !.applied = Append(@, pats[i].k)]

\* one iteration of the loop over Object.entries(patterns), for entry i: the
\* budget test (break), then the replace inside its own try
GuardStep(g, pats, i, prof, timeoutMs) ==
    CASE g.elapsed > timeoutMs -> [g EXCEPT !.timedOut = TRUE]
      [] g.elapsed <= timeoutMs /\ pats[i].v.throws ->
           [g EXCEPT !.elapsed = @ + Cost(prof, i), !.failed = Append(@, pats[i].k)]
      [] OTHER ->
           [g EXCEPT !.text = StringReplace(@, pats[i].v, "[" \o ToUpperCase(pats[i].k) \o "]"),
                     !.elapsed = @ + Cost(prof, i),
                     !.applied = Append(@, pats[i].k)]

\* the loop from entry i on
RECURSIVE GuardLoop(_, _, _, _, _)
GuardLoop(g, pats, i, prof, timeoutMs) ==
    IF i > Len(pats) \/ g.timedOut THEN g
    ELSE GuardLoop(GuardStep(g, pats, i, prof, timeoutMs), pats, i + 1, prof, timeoutMs)

\* Nothing in the loop's own control raises (handleError only writes a warning),
\* so the outer catch, which returns the original text, is never entered.
ApplyRegexRun(text, pats, prof, timeoutMs) ==
    GuardLoop(GuardStart(text), pats, 1, prof, timeoutMs)

ApplyRegexWithTimeout(text, pats, prof) ==
    ApplyRegexRun(text, pats, prof, REGEX_TIMEOUT_MS).text

-----------------------------------------------------------------------------
(* Heap objects *)

\* a plain record; strThrows: String(obj) raises (an object without a usable
\* toString, such as Object.create(null))
Rec(props)      == [kind |-> "rec", props |-> props, strThrows |-> FALSE]
BareRec(props)  == [kind |-> "rec", props |-> props, strThrows |-> TRUE]
Arr(items)      == [kind |-> "arr", items |-> items]
Entry(mk, mv)   == [mk |-> mk, mv |-> mv]
MapObj(entries) == [kind |-> "map", entries |-> entries]
SetObj(items)   == [kind |-> "set", items |-> items]
\* a Date: valid is false for an invalid date (new Date(NaN)), whose
\* toISOString() raises a RangeError; iso is toISOString(), text is toString()
DateObj(valid, iso, text) == [kind |-> "date", valid |-> valid, iso |-> iso, text |-> text]
\* an Error; stack = "" stands for an absent stack
ErrObj(name, message, stack) ==
    [kind |-> "err", name |-> name, message |-> message, stack |-> stack]
BufferObj(text) == [kind |-> "buf", text |-> text]
TypedArr(text)  == [kind |-> "typed", text |-> text]

IsPrimitive(v) == v.t \in {"str", "num", "null", "undef"}

Ok(s) == [ok |-> TRUE, s |-> s]
Raised == [ok |-> FALSE, s |-> ""]

\* String(value): [ok, s]; ok is false when the conversion raises
RECURSIVE ToStr(_, _, _)
RECURSIVE JoinItems(_, _, _, _)

StrOfObject(o, id, hp, seen) ==
    CASE o.kind = "rec"  -> IF o.strThrows THEN Raised ELSE Ok("[object Object]")
      [] o.kind = "map"  -> Ok("[object Map]")
      [] o.kind = "set"  -> Ok("[object Set]")
      [] o.kind = "date" -> Ok(IF o.valid THEN o.text ELSE "Invalid Date")
      [] o.kind = "err"  -> Ok(IF o.message = "" THEN o.name ELSE o.name \o ": " \o o.message)
      [] o.kind \in {"buf", "typed"} -> Ok(o.text)
      [] o.kind = "arr"  -> IF id \in seen THEN Ok("")
                            ELSE JoinItems(o.items, 1, hp, seen \cup {id})

ToStr(v, hp, seen) ==
    CASE v.t = "str"   -> Ok(v.s)
      [] v.t = "num"   -> Ok(ToString(v.n))
      [] v.t = "null"  -> Ok("null")
      [] v.t = "undef" -> Ok("undefined")
      [] v.t = "ref"   -> StrOfObject(hp[v.id], v.id, hp, seen)

JoinTwo(h, r, isLast) ==
    IF ~h.ok \/ ~r.ok THEN Raised
    ELSE Ok(IF isLast THEN h.s ELSE h.s \o "," \o r.s)

\* Array.prototype.join(","): null and undefined give the empty string
JoinItems(items, i, hp, seen) ==
    IF i > Len(items) THEN Ok("")
    ELSE JoinTwo(IF items[i].t \in {"null", "undef"} THEN Ok("") ELSE ToStr(items[i], hp, seen),
                 JoinItems(items, i + 1, hp, seen),
                 i = Len(items))

-----------------------------------------------------------------------------
(* masking.ts: maskSensitiveValue *)

\* the email strategy on the parts of str.split('@')
MaskEmail(local, domain) ==
    IF local = "" \/ domain = "" THEN "***"
    ELSE IF Len(local) <= 3 THEN "***@" \o domain
    ELSE Slice0(local, 3) \o "***@" \o domain

EmailParts(parts) == MaskEmail(parts[1], parts[2])

\* the masking strategies; key = "" stands for an absent key
MaskCompute(str, key) ==
    IF key # "" /\ Includes(ToLowerCase(key), "email") /\ Includes(str, "@")
    THEN EmailParts(Split(str, "@"))
    ELSE IF key # "" /\ (\/ Includes(ToLowerCase(key), "password")
                         \/ Includes(ToLowerCase(key), "pwd")
                         \/ Includes(ToLowerCase(key), "passwd"))
    THEN IF Len(str) <= 2 THEN "***" ELSE Slice0(str, 2) \o "***"
    ELSE IF Len(str) <= 2 THEN "***"
    ELSE Slice0(str, 2) \o "***"

MaskResult(out, mc, hit) == [out |-> out, mc |-> mc, hit |-> hit]

\* the cached part of maskSensitiveValue, on the string form str of the value
MaskCached(str, key, cacheKey, mc) ==
    IF LRUHas(mc, cacheKey)
    THEN MaskResult(Str(LRUValue(mc, cacheKey)), LRUGet(mc, cacheKey), cacheKey)
    ELSE MaskResult(Str(MaskCompute(str, key)),
                    LRUSet(mc, cacheKey, MaskCompute(str, key), LRU_MAX_SIZE), "")

MaskOfString(c, key, mc) ==
    IF ~c.ok THEN MaskResult(Throw, mc, "")
    ELSE IF Len(c.s) = 0 THEN MaskResult(Str("***"), mc, "")
    ELSE MaskCached(c.s, key, c.s \o "|" \o key, mc)

\* maskSensitiveValue(value, key) with mask cache mc: the result (a string
\* value, or Throw), the cache afterwards, and the cache key when the result
\* was served from the cache ("" otherwise)
MaskSensitiveValue(value, key, hp, mc) ==
    IF value.t \in {"null", "undef"} THEN MaskResult(Str("***"), mc, "")
    ELSE MaskOfString(ToStr(value, hp, {}), key, mc)

-----------------------------------------------------------------------------
(* masking.ts: sanitizeLogData *)

\* Results of the walk
RecOut(props)    == [t |-> "rec", props |-> props]
ArrOut(items)    == [t |-> "arr", items |-> items]
MapOut(entries)  == [t |-> "map", entries |-> entries]
SetOut(items)    == [t |-> "set", items |-> items]

CIRCULAR   == Str("[CIRCULAR]")
MAXDEPTH   == Str("[MAX_DEPTH]")
UNSAFE_KEY == Str("[UNSAFE_KEY]")

\* sanitized[key] = value on the result record, an ordinary object: the name
\* __proto__ reaches the setter inherited from Object.prototype, which sets the
\* prototype (an object or null) or ignores the value (anything else), and in
\* both cases defines no own property
AssignProp(props, k, v) ==
    IF k = "__proto__" THEN props ELSE DefineProp(props, k, v)

\* Map.prototype.set on the entries built so far: a key equal to an earlier
\* one (primitives compare by value, fresh objects never) replaces its value
MapSet(entries, mk, mv) ==
    IF IsPrimitive(mk) /\ \E i \in 1..Len(entries) : entries[i].mk = mk
    THEN [i \in 1..Len(entries) |-> IF entries[i].mk = mk THEN Entry(mk, mv) ELSE entries[i]]
    ELSE Append(entries, Entry(mk, mv))

\* Set.prototype.add
SetAdd(items, v) ==
    IF IsPrimitive(v) /\ \E i \in 1..Len(items) : items[i] = v THEN items ELSE Append(items, v)

\* The walk's log: one event per call of the walker (walk), per call of the
\* masker (mask, with the mask-cache key in hit when the cache served it), per
\* result served from the object cache (hit) and per property that the loop
\* over a plain record assigns (prop, with the value assigned in out)
Event(e, v, d, k) == [e |-> e, v |-> v, d |-> d, k |-> k, hit |-> "", out |-> Undef]
MaskEvent(v, d, k, hit) == [e |-> "mask", v |-> v, d |-> d, k |-> k, hit |-> hit, out |-> Undef]
PropEvent(v, d, k, out) == [e |-> "prop", v |-> v, d |-> d, k |-> k, hit |-> "", out |-> out]

R(out, st) == [out |-> out, st |-> st]

\* the string branch without the cut
SanitizeStringUncut(str, env) == ApplyRegexWithTimeout(str, env.pats, env.prof)

\* the string branch: truncation, then the pattern guard
SanitizeString(str, env) ==
    IF Len(str) > MAX_STRING_LENGTH
    THEN ApplyRegexWithTimeout(Slice0(str, MAX_STRING_LENGTH) \o TRUNCATED_MARK, env.pats, env.prof)
    ELSE ApplyRegexWithTimeout(str, env.pats, env.prof)

\* sanitizeLogData(data, depth, visited).  st carries what the walk changes:
\* visited, the object cache sc, the mask cache mc, and the log.  env carries
\* what it reads: the heap hp, the key set ks, the patterns pats, the clock prof.
\* A result is R(out, st), with out = Throw when the call raised.
RECURSIVE SanitizeLogData(_, _, _, _)
RECURSIVE SanProps(_, _, _, _, _)
RECURSIVE SanItems(_, _, _, _, _, _)
RECURSIVE SanEntries(_, _, _, _, _)

Logged(st, ev) == [st EXCEPT !.log = Append(@, ev)]

\* The state of a loop over the members of a container is the result so far:
\* R(the container of the members assigned so far, st), or R(Throw, st) once an
\* iteration raised (which ends the loop).

\* a property of a plain record was masked (m): sanitized[key] = the mask
PropMasked(m, g, p, depth) ==
    IF m.out = Throw
    THEN R(Throw, [g.st EXCEPT !.mc = m.mc,
                               !.log = Append(@, MaskEvent(p.v, depth, p.k, m.hit))])
    ELSE R(RecOut(AssignProp(g.out.props, p.k, m.out)),
           [g.st EXCEPT !.mc = m.mc,
                        !.log = @ \o <<MaskEvent(p.v, depth, p.k, m.hit),
                                       PropEvent(p.v, depth, p.k, m.out)>>])

\* a property of a plain record was walked (r): sanitized[key] = the result
PropWalked(r, g, p, depth) ==
    [r EXCEPT !.out = IF @ = Throw THEN Throw
                      ELSE RecOut(AssignProp(g.out.props, p.k, @)),
              !.st = IF r.out = Throw THEN @
                     ELSE Logged(@, PropEvent(p.v, depth, p.k, r.out))]

PropUnsafe(g, p, depth) ==
    R(RecOut(AssignProp(g.out.props, p.k, UNSAFE_KEY)),
      Logged(g.st, PropEvent(p.v, depth, p.k, UNSAFE_KEY)))

\* the iteration without the key registry: every property is walked
PropStepWalksAll(g, p, depth, env) ==
    CASE g.out = Throw -> g
      [] g.out # Throw /\ (\E j \in 1..Len(UNSAFE_KEYS) : UNSAFE_KEYS[j] = p.k) ->
           PropUnsafe(g, p, depth)
      [] OTHER -> PropWalked(SanitizeLogData(p.v, depth + 1, g.st, env), g, p, depth)

\* One iteration of the loop over Object.entries(data) of a plain record, for
\* the entry p.  Object.entries yields own properties only, so the
\* hasOwnProperty test never skips one.
PropStep(g, p, depth, env) ==
    CASE g.out = Throw -> g
      [] g.out # Throw /\ (\E j \in 1..Len(UNSAFE_KEYS) : UNSAFE_KEYS[j] = p.k) ->
           PropUnsafe(g, p, depth)
      [] g.out # Throw /\ (\A j \in 1..Len(UNSAFE_KEYS) : UNSAFE_KEYS[j] # p.k)
                       /\ IsSensitive(env.ks, p.k) ->
           PropMasked(MaskSensitiveValue(p.v, p.k, env.hp, g.st.mc), g, p, depth)
      [] OTHER -> PropWalked(SanitizeLogData(p.v, depth + 1, g.st, env), g, p, depth)

\* the loop over Object.entries(data) after its first n entries
SanProps(props, n, depth, st, env) ==
    IF n = 0 THEN R(RecOut(<<>>), st)
    ELSE PropStep(SanProps(props, n - 1, depth, st, env), props[n], depth, env)

\* after the loop: setSanitizeCache(data, sanitized); return sanitized
RecDone(id, g) ==
    [g EXCEPT !.st = IF g.out = Throw THEN @ ELSE [@ EXCEPT !.sc = (id :> g.out) @@ @]]

\* an element of an array was walked (r): the next element of data.map's result
ItemWalked(r, g) ==
    [r EXCEPT !.out = IF @ = Throw THEN Throw ELSE ArrOut(Append(g.out.items, @))]

\* a member of a Set was walked (r): sanitized.add(the result)
MemberWalked(r, g) ==
    [r EXCEPT !.out = IF @ = Throw THEN Throw ELSE SetOut(SetAdd(g.out.items, @))]

ItemStep(g, item, depth, env, asSet) ==
    CASE g.out = Throw -> g
      [] g.out # Throw /\ asSet ->
           MemberWalked(SanitizeLogData(item, depth + 1, g.st, env), g)
      [] OTHER -> ItemWalked(SanitizeLogData(item, depth + 1, g.st, env), g)

\* data.map over an array, or the loop over data.values() of a Set (asSet),
\* after the first n members
SanItems(items, n, depth, st, env, asSet) ==
    IF n = 0 THEN R(IF asSet THEN SetOut(<<>>) ELSE ArrOut(<<>>), st)
    ELSE ItemStep(SanItems(items, n - 1, depth, st, env, asSet), items[n], depth, env, asSet)

\* an entry of a Map under a sensitive string key: key and value are masked
EntryMasked(mk, mv, g, e, depth) ==
    IF mv.out = Throw
    THEN R(Throw, [g.st EXCEPT !.mc = mv.mc,
                               !.log = @ \o <<MaskEvent(e.mk, depth, e.mk.s, mk.hit),
                                              MaskEvent(e.mv, depth, e.mk.s, mv.hit)>>])
    ELSE R(MapOut(MapSet(g.out.entries, mk.out, mv.out)),
           [g.st EXCEPT !.mc = mv.mc,
                        !.log = @ \o <<MaskEvent(e.mk, depth, e.mk.s, mk.hit),
                                       MaskEvent(e.mv, depth, e.mk.s, mv.hit)>>])

EntryMaskValue(mk, g, e, depth, env) ==
    EntryMasked(mk, MaskSensitiveValue(e.mv, e.mk.s, env.hp, mk.mc), g, e, depth)

\* any other entry: key and value are walked
EntryWalked(rk, rv, g) ==
    [rv EXCEPT !.out = IF @ = Throw THEN Throw ELSE MapOut(MapSet(g.out.entries, rk.out, @))]

EntryWalkValue(rk, g, e, depth, env) ==
    IF rk.out = Throw THEN rk
    ELSE EntryWalked(rk, SanitizeLogData(e.mv, depth + 1, rk.st, env), g)

EntryStep(g, e, depth, env) ==
    CASE g.out = Throw -> g
      [] g.out # Throw /\ e.mk.t = "str" /\ IsSensitive(env.ks, e.mk.s) ->
           EntryMaskValue(MaskSensitiveValue(e.mk, e.mk.s, env.hp, g.st.mc), g, e, depth, env)
      [] OTHER -> EntryWalkValue(SanitizeLogData(e.mk, depth + 1, g.st, env), g, e, depth, env)

\* the loop over data.entries() of a Map after its first n entries
SanEntries(entries, n, depth, st, env) ==
    IF n = 0 THEN R(MapOut(<<>>), st)
    ELSE EntryStep(SanEntries(entries, n - 1, depth, st, env), entries[n], depth, env)

\* an Error: { name, message: sanitize(message), stack: sanitize(stack) or undefined }
ErrResult(name, m, k) ==
    IF k.out = Throw THEN k
    ELSE R(RecOut(<<Prop("name", Str(name)), Prop("message", m.out), Prop("stack", k.out)>>),
           k.st)

ErrStack(o, m, depth, env) ==
    IF m.out = Throw THEN m
    ELSE ErrResult(o.name, m,
                   IF o.stack # "" THEN SanitizeLogData(Str(o.stack), depth + 1, m.st, env)
                   ELSE R(Undef, m.st))

\* visited.add(data): the state in which the object's own branch runs
Visit(st, data, depth) ==
    [st EXCEPT !.visited = @ \cup {data.id},
               !.log = Append(@, Event("walk", data, depth, ""))]

\* data is an object of the given kind that visited does not hold yet
Fresh(data, depth, st, env, kind) ==
    /\ depth <= MAX_DEPTH
    /\ data.t = "ref"
    /\ data.id \notin st.visited
    /\ env.hp[data.id].kind = kind

SanitizeLogData(data, depth, st, env) ==
    CASE depth > MAX_DEPTH ->
           R(MAXDEPTH, Logged(st, Event("walk", data, depth, "")))
      [] depth <= MAX_DEPTH /\ data.t \in {"null", "undef", "num"} ->
           R(data, Logged(st, Event("walk", data, depth, "")))
      [] depth <= MAX_DEPTH /\ data.t = "str" ->
           R(Str(SanitizeString(data.s, env)), Logged(st, Event("walk", data, depth, "")))
      [] depth <= MAX_DEPTH /\ data.t = "ref" /\ data.id \in st.visited ->
           R(CIRCULAR, Logged(st, Event("walk", data, depth, "")))
      [] Fresh(data, depth, st, env, "err") ->
           ErrStack(env.hp[data.id],
                    SanitizeLogData(Str(env.hp[data.id].message), depth + 1,
                                    Visit(st, data, depth), env),
                    depth, env)
      [] Fresh(data, depth, st, env, "date") /\ env.hp[data.id].valid ->
           SanitizeLogData(Str(env.hp[data.id].iso), depth + 1, Visit(st, data, depth), env)
      [] Fresh(data, depth, st, env, "date") /\ ~env.hp[data.id].valid ->
           R(Throw, Visit(st, data, depth))
      [] Fresh(data, depth, st, env, "map") ->
           SanEntries(env.hp[data.id].entries, Len(env.hp[data.id].entries), depth,
                      Visit(st, data, depth), env)
      [] Fresh(data, depth, st, env, "set") ->
           SanItems(env.hp[data.id].items, Len(env.hp[data.id].items), depth,
                    Visit(st, data, depth), env, TRUE)
      [] Fresh(data, depth, st, env, "buf") -> R(Str("[BUFFER]"), Visit(st, data, depth))
      [] Fresh(data, depth, st, env, "typed") ->
           R(Str("[BINARY_DATA]"), Visit(st, data, depth))
      [] Fresh(data, depth, st, env, "rec") /\ data.id \in DOMAIN st.sc ->
           R(st.sc[data.id], Logged(Visit(st, data, depth), Event("hit", data, depth, "")))
      [] Fresh(data, depth, st, env, "rec") /\ data.id \notin DOMAIN st.sc ->
           RecDone(data.id,
                   SanProps(env.hp[data.id].props, Len(env.hp[data.id].props), depth,
                            Visit(st, data, depth), env))
      [] Fresh(data, depth, st, env, "arr") ->
           SanItems(env.hp[data.id].items, Len(env.hp[data.id].items), depth,
                    Visit(st, data, depth), env, FALSE)

\* A top-level call sanitizeLogData(data): depth 0 and a new visited set
Sanitize(data, hp, ks, pats, prof, sc, mc) ==
    SanitizeLogData(data, 0, [visited |-> {}, sc |-> sc, mc |-> mc, log |-> <<>>],
                    [hp |-> hp, ks |-> ks, pats |-> pats, prof |-> prof])

-----------------------------------------------------------------------------
(* cache.ts: the two caches *)

EmptyWeakMap == <<>>

\* clearSanitizeCache()
ClearSanitizeCache ==
    /\ sanitizeCache' = EmptyWeakMap
    /\ maskValueCache' = <<>>

-----------------------------------------------------------------------------
(* managers/SensitiveKeysManager.ts: the methods, on the registry and caches *)

\* addKey that leaves the caches as they are
AddKeyKeepsCaches(key) ==
    /\ IF Len(key) > 0
       THEN sensitiveKeys' = sensitiveKeys \cup {ToLowerCase(key)}
       ELSE UNCHANGED sensitiveKeys
    /\ UNCHANGED <<patterns, suppressWarnings, sanitizeCache, maskValueCache>>

\* addKey that stores the key as it is written
AddKeyAsWritten(key) ==
    /\ IF Len(key) > 0
       THEN /\ sensitiveKeys' = sensitiveKeys \cup {key}
            /\ ClearSanitizeCache
       ELSE UNCHANGED <<sensitiveKeys, sanitizeCache, maskValueCache>>
    /\ UNCHANGED <<patterns, suppressWarnings>>

AddKey(key) ==
    /\ IF Len(key) > 0
       THEN /\ sensitiveKeys' = sensitiveKeys \cup {ToLowerCase(key)}
            /\ ClearSanitizeCache
       ELSE UNCHANGED <<sensitiveKeys, sanitizeCache, maskValueCache>>
    /\ UNCHANGED <<patterns, suppressWarnings>>

\* removeKey that leaves the caches as they are
RemoveKeyKeepsCaches(key) ==
    /\ IF Len(key) > 0
       THEN sensitiveKeys' = sensitiveKeys \ {ToLowerCase(key)}
       ELSE UNCHANGED sensitiveKeys
    /\ UNCHANGED <<patterns, suppressWarnings, sanitizeCache, maskValueCache>>

RemoveKey(key) ==
    /\ IF Len(key) > 0
       THEN /\ sensitiveKeys' = sensitiveKeys \ {ToLowerCase(key)}
            /\ ClearSanitizeCache
       ELSE UNCHANGED <<sensitiveKeys, sanitizeCache, maskValueCache>>
    /\ UNCHANGED <<patterns, suppressWarnings>>

\* keys: a sequence of strings; "" is the falsy entry that filter(Boolean) drops
LowerCased(keys) == {ToLowerCase(keys[i]) : i \in {j \in 1..Len(keys) : keys[j] # ""}}

SetKeys(keys) ==
    /\ sensitiveKeys' = LowerCased(keys)
    /\ ClearSanitizeCache
    /\ UNCHANGED <<patterns, suppressWarnings>>

ResetKeys ==
    /\ sensitiveKeys' = DefaultKeySet
    /\ ClearSanitizeCache
    /\ UNCHANGED <<patterns, suppressWarnings>>

-----------------------------------------------------------------------------
(* managers/SensitivePatternsManager.ts *)

\* normalizePatterns: the RegExp-valued entries, assigned one by one to {}
RECURSIVE NormalizeFrom(_, _, _)
NormalizeFrom(input, i, acc) ==
    IF i > Len(input) THEN acc
    ELSE NormalizeFrom(input, i + 1,
                       IF input[i].v.isRegExp THEN AssignProp(acc, input[i].k, input[i].v)
                       ELSE acc)

NormalizePatterns(input) == NormalizeFrom(input, 1, <<>>)

\* the default names that nextPatterns lacks
MissingDefaults(nextPatterns) ==
    SelectSeq(Keys(DEFAULT_SENSITIVE_PATTERNS), LAMBDA k : ~HasKey(nextPatterns, k))

\* names.join(', ')
RECURSIVE JoinNames(_, _)
JoinNames(names, i) ==
    IF i > Len(names) THEN ""
    ELSE IF i = Len(names) THEN names[i]
    ELSE names[i] \o ", " \o JoinNames(names, i + 1)

\* warnIfDefaultsMissing: what it writes to the console
WarnIfDefaultsMissing(nextPatterns) ==
    IF ~suppressWarnings /\ Len(MissingDefaults(nextPatterns)) > 0
    THEN <<[fn |-> "warn",
            args |-> <<Str("[WebLogger] Default sensitive patterns removed: "
                           \o JoinNames(MissingDefaults(nextPatterns), 1)
                           \o ". Ensure this is intentional.")>>]>>
    ELSE <<>>

SetPatterns(input) ==
    /\ patterns' = NormalizePatterns(input)
    /\ console' = console \o WarnIfDefaultsMissing(NormalizePatterns(input))
    /\ ClearSanitizeCache
    /\ UNCHANGED <<sensitiveKeys, suppressWarnings>>

MergePatterns(input) ==
    /\ patterns' = Spread(patterns, NormalizePatterns(input))
    /\ ClearSanitizeCache
    /\ UNCHANGED <<sensitiveKeys, suppressWarnings>>

ResetPatterns ==
    /\ patterns' = Spread(<<>>, DEFAULT_SENSITIVE_PATTERNS)
    /\ ClearSanitizeCache
    /\ UNCHANGED <<sensitiveKeys, suppressWarnings>>

SetSuppressWarnings(value) ==
    /\ suppressWarnings' = value
    /\ UNCHANGED <<sensitiveKeys, patterns, sanitizeCache, maskValueCache>>

-----------------------------------------------------------------------------
(* The host program's objects *)

\* a chain of plain records, each the property "nested" of the one before:
\* Chain(i) lies i levels below Chain(0)
ChainLen == 12

HeapFixed ==
    << (* 1 *) Rec(<<Prop("name", Str("test")), Prop("self", Ref(1))>>),
       (* 2 *) Rec(<<Prop("password", Str("mypassword123")),
                     Prop("email", Str("user@example.com")),
                     Prop("note", Str("call 010-1234-5678"))>>),
       (* 3 *) Rec(<<Prop("a", Ref(4)), Prop("b", Ref(4))>>),
       (* 4 *) Rec(<<Prop("v", Num(1))>>),
       (* 5 *) MapObj(<<Entry(Str("self"), Ref(5))>>),
       (* 6 *) SetObj(<<Ref(6)>>),
       (* 7 *) Rec(<<Prop("customField", Str("secret123")), Prop("normal", Str("ok"))>>),
       (* 8 *) Rec(<<Prop("normal", Str("value")), Prop("constructor", Ref(9)),
                     Prop("__proto__", Ref(9)), Prop("prototype", Str("user@example.com"))>>),
       (* 9 *) Rec(<<Prop("malicious", Str("code"))>>),
       (* 10 *) Arr(<<Ref(11)>>),
       (* 11 *) Rec(<<Prop("back", Ref(10))>>),
       (* 12 *) DateObj(FALSE, "", "Invalid Date"),
       (* 13 *) DateObj(TRUE, "2024-12-01T10:00:00.000Z", "Sun Dec 01 2024 10:00:00 GMT+0000"),
       (* 14 *) Rec(<<Prop("password", Ref(15))>>),
       (* 15 *) BareRec(<<>>),
       (* 16 *) Rec(<<Prop("email", Str("user@example.com")),
                      Prop("note", Str("user@example.com")), Prop("when", Ref(13))>>),
       (* 17 *) ErrObj("Error", "mail user@example.com", "Error: mail user@example.com at f"),
       (* 18 *) Arr(<<Ref(4), Ref(4), Str("a@b.cc")>>),
       (* 19 *) MapObj(<<Entry(Str("token"), Str("abcdef")), Entry(Str("k"), Ref(4))>>),
       (* 20 *) MapObj(<<Entry(Str("apiKey1"), Str("k1-secret")),
                         Entry(Str("apiKey2"), Str("k2-secret"))>>),
       (* 21 *) Rec(<<Prop("accessToken", Str("tok-12345")),
                      Prop("email", Str("user@example.com"))>>),
       (* 22 *) Rec(<<Prop("user@example.com", Str("ok")), Prop("note", Str("a@b.cc"))>>),
       (* 23 *) ErrObj("a@b.cc", "mail user@example.com", "") >>

ChainBase == Len(HeapFixed) + 1
Chain(i) == Ref(ChainBase + i)

\* Chain(MAX_DEPTH - 1) also holds a Date, Chain(MAX_DEPTH) a string and a password
Heap0 ==
    HeapFixed
    \o [i \in 1..(ChainLen + 1) |->
          IF i - 1 = ChainLen THEN Rec(<<>>)
          ELSE IF i - 1 = MAX_DEPTH - 1
          THEN Rec(<<Prop("at", Ref(13)), Prop("nested", Chain(i))>>)
          ELSE IF i - 1 = MAX_DEPTH
          THEN Rec(<<Prop("note", Str("user@example.com")),
                     Prop("password", Str("mypassword123")), Prop("nested", Chain(i))>>)
          ELSE Rec(<<Prop("nested", Chain(i))>>)]

-----------------------------------------------------------------------------
(* The public API, as the operations of the state machine *)

MaxOps == 3
MaxCalls == 2

\* the names of the mask-cache entries
MaskKeys(mc) == {mc[i].k : i \in 1..Len(mc)}

\* the number of entries the two caches hold
Cached(sc, mc) == Cardinality(DOMAIN sc) + Len(mc)

\* Bookkeeping of a registry call: the entries that outlive a call that changed
\* a registry were produced before that change
Mutated == sensitiveKeys' # sensitiveKeys \/ patterns' # patterns

NoteCall(op, arg, maxOps) ==
    /\ nOps < maxOps
    /\ nOps' = nOps + 1
    /\ last' = [op |-> op, arg |-> arg, out |-> Undef, log |-> <<>>, prof |-> <<>>,
                staleHit |-> FALSE, cached |-> Cached(sanitizeCache, maskValueCache),
                before |-> Undef]
    /\ stale' = IF Mutated
                THEN [obj |-> DOMAIN sanitizeCache', mask |-> MaskKeys(maskValueCache')]
                ELSE [obj |-> stale.obj \cap DOMAIN sanitizeCache',
                      mask |-> stale.mask \cap MaskKeys(maskValueCache')]
    /\ UNCHANGED <<heap, earlier>>
    /\ UNCHANGED <<host, globalLevel>>
    /\ UNCHANGED used

\* a registry call that writes nothing to the console
NoteRegistryCall(op, arg, maxOps) ==
    /\ NoteCall(op, arg, maxOps)
    /\ UNCHANGED <<console, loggers>>

\* the names of the entries of input that hold a regular expression, as written
WrittenNames(input) ==
    Keys(SelectSeq(input, LAMBDA e : e.v.isRegExp))

\* names, without those that occur in seen
NewNames(names, seen) ==
    SelectSeq(names, LAMBDA k : \A j \in 1..Len(seen) : seen[j] # k)

AddSensitiveKey(keys, maxOps) ==
    \E key \in keys :
        /\ AddKey(key)
        /\ NoteRegistryCall("addSensitiveKey", Str(key), maxOps)
        /\ UNCHANGED inserted

RemoveSensitiveKey(keys, maxOps) ==
    \E key \in keys :
        /\ RemoveKey(key)
        /\ NoteRegistryCall("removeSensitiveKey", Str(key), maxOps)
        /\ UNCHANGED inserted

\* new WebLogger({ sensitiveKeys: keys }): applyOptions replaces the key set
SetSensitiveKeys(keyLists, maxOps) ==
    \E keys \in keyLists :
        /\ SetKeys(keys)
        /\ NoteRegistryCall("setSensitiveKeys", Undef, maxOps)
        /\ UNCHANGED inserted

ResetSensitiveKeys(maxOps) ==
    /\ ResetKeys
    /\ NoteRegistryCall("resetSensitiveKeys", Undef, maxOps)
    /\ UNCHANGED inserted

\* inputs: a set of object literals, each given by its entries as written
SetSensitivePatterns(inputs, maxOps) ==
    \E input \in inputs :
        /\ SetPatterns(ObjectLiteral(input))
        /\ NoteCall("setSensitivePatterns", PatternMap(ObjectLiteral(input)), maxOps)
        /\ inserted' = WrittenNames(input)
        /\ UNCHANGED loggers

AddSensitivePatterns(inputs, maxOps) ==
    \E input \in inputs :
        /\ MergePatterns(ObjectLiteral(input))
        /\ NoteRegistryCall("addSensitivePatterns", Undef, maxOps)
        /\ inserted' = inserted \o NewNames(WrittenNames(input), inserted)

\* setSensitivePatternWarnings(suppress)
SetSensitivePatternWarnings(values, maxOps) ==
    \E suppress \in values :
        /\ SetSuppressWarnings(suppress)
        /\ NoteRegistryCall("setSensitivePatternWarnings", Bool(suppress), maxOps)
        /\ UNCHANGED inserted

ResetSensitivePatterns(maxOps) ==
    /\ ResetPatterns
    /\ NoteRegistryCall("resetSensitivePatterns", Undef, maxOps)
    /\ inserted' = Keys(DEFAULT_SENSITIVE_PATTERNS)

\* getSensitivePatterns() hands out the registry's own object; the host
\* program assigns to it and deletes from it.  No method of the manager runs.
AssignLivePattern(entries, maxOps) ==
    \E e \in entries :
        /\ patterns' = DefineProp(patterns, e.k, e.v)
        /\ UNCHANGED <<sensitiveKeys, suppressWarnings, sanitizeCache, maskValueCache>>
        /\ NoteRegistryCall("getSensitivePatterns()[k] = v", Str(e.k), maxOps)
        /\ inserted' = inserted \o NewNames(<<e.k>>, inserted)

DeleteLivePattern(names, maxOps) ==
    \E name \in names :
        /\ patterns' = SelectSeq(patterns, LAMBDA p : p.k # name)
        /\ UNCHANGED <<sensitiveKeys, suppressWarnings, sanitizeCache, maskValueCache>>
        /\ NoteRegistryCall("delete getSensitivePatterns()[k]", Str(name), maxOps)
        /\ inserted' = SelectSeq(inserted, LAMBDA k : k # name)

\* a result of the walk came from a cache entry that is older than the last
\* change of a registry
StaleHit(log) ==
    \E i \in 1..Len(log) :
        \/ log[i].e = "hit" /\ log[i].v.id \in stale.obj
        \/ log[i].hit # "" /\ log[i].hit \in stale.mask

SanitizeDone(data, prof, r) ==
    /\ nOps' = nOps + 1
    /\ sanitizeCache' = r.st.sc
    /\ maskValueCache' = r.st.mc
    /\ last' = [op |-> "sanitize", arg |-> data, out |-> r.out, log |-> r.st.log,
                prof |-> prof, staleHit |-> StaleHit(r.st.log),
                cached |-> Cached(sanitizeCache, maskValueCache),
                before |-> IF data \in DOMAIN earlier THEN earlier[data] ELSE Undef]
    /\ earlier' = (data :> r.out) @@ earlier
    /\ UNCHANGED <<sensitiveKeys, patterns, suppressWarnings, heap, stale, inserted>>
    /\ UNCHANGED logVars
    /\ UNCHANGED used

\* sanitizeLogData(data), as the logging methods call it for the message and
\* for each argument, with the clock running as prof says
SanitizeCall(roots, profs, maxOps) ==
    /\ nOps < maxOps
    /\ \E data \in roots, prof \in profs :
          \E r \in {Sanitize(data, heap, sensitiveKeys, patterns, prof,
                             sanitizeCache, maskValueCache)} :
              SanitizeDone(data, prof, r)

\* no call made yet
NoCall ==
    [op |-> "init", arg |-> Undef, out |-> Undef, log |-> <<>>, prof |-> <<>>,
     staleHit |-> FALSE, cached |-> 0, before |-> Undef]

\* a production build without a seed level and without the environment variable
ProductionHost == [dev |-> FALSE, seed |-> "", envLevel |-> ""]

\* export const webLogger = new WebLogger('[APP]') on the host h
DefaultLogger(h) == [prefix |-> "[APP]", enableMasking |-> ~h.dev]

\* The module as loaded on the host h: the registries hold their defaults, the
\* caches are empty, no log level is set, the console is untouched and the
\* exported logger exists; l records what the caller is about to do.
LoadedOn(l, h) ==
    /\ host = h
    /\ globalLevel = ""
    /\ console = <<>>
    /\ loggers = <<DefaultLogger(h)>>
    /\ sensitiveKeys = DefaultKeySet
    /\ patterns = Spread(<<>>, DEFAULT_SENSITIVE_PATTERNS)
    /\ suppressWarnings = FALSE
    /\ sanitizeCache = EmptyWeakMap
    /\ maskValueCache = <<>>
    /\ heap = Heap0
    /\ last = l
    /\ stale = [obj |-> {}, mask |-> {}]
    /\ inserted = Keys(DEFAULT_SENSITIVE_PATTERNS)
    /\ earlier = <<>>
    /\ nOps = 0
    /\ used = <<>>

Loaded(l) == LoadedOn(l, ProductionHost)

Init == Loaded(NoCall)

\* the clock: every pattern instantaneous, or the first one over the budget
Instant == <<>>
FirstSlow == <<REGEX_TIMEOUT_MS + 1>>

-----------------------------------------------------------------------------
(* utils.ts, utils/environment.ts, managers/LogLevelManager.ts *)

IsValidLogLevel(level) == level \in {"debug", "info", "warn", "error", "none"}

\* the array levels of shouldLog, and levels.indexOf(level): 0-based, -1 when absent
levels == <<"debug", "info", "warn", "error">>

LevelIndexOf(level) ==
    IF \E i \in 1..Len(levels) : levels[i] = level
    THEN (CHOOSE i \in 1..Len(levels) : levels[i] = level) - 1
    ELSE -1

ShouldLog(requestedLevel, currentLevel) ==
    IF currentLevel = "none" THEN FALSE
    ELSE IF requestedLevel = "error" THEN TRUE
    ELSE LevelIndexOf(requestedLevel) >= LevelIndexOf(currentLevel)

\* isDevelopment(): __DEV__, or NODE_ENV === 'development'
IsDevelopment(h) == h.dev

\* getCurrentLogLevel(): the global level, the build-time seed, the environment
\* variable, then the mode.  (In a browser window is globalThis, so the window
\* property is the global one.)
\* getCurrentLogLevel that asks the build-time seed first
GetCurrentLogLevelSeedFirst(g, h) ==
    IF h.seed # "" /\ IsValidLogLevel(h.seed) THEN h.seed
    ELSE IF IsValidLogLevel(g) THEN g
    ELSE IF IsValidLogLevel(h.envLevel) THEN h.envLevel
    ELSE IF IsDevelopment(h) THEN "debug"
    ELSE "warn"

GetCurrentLogLevel(g, h) ==
    IF IsValidLogLevel(g) THEN g
    ELSE IF h.seed # "" /\ IsValidLogLevel(h.seed) THEN h.seed
    ELSE IF IsValidLogLevel(h.envLevel) THEN h.envLevel
    ELSE IF IsDevelopment(h) THEN "debug"
    ELSE "warn"

\* LogLevelManager.setLogLevel(level): an invalid level raises in development
\* and is dropped in production
SetLevel(level) ==
    globalLevel' = IF IsValidLogLevel(level) THEN level ELSE globalLevel

SetLevelOut(level, h) ==
    IF ~IsValidLogLevel(level) /\ IsDevelopment(h) THEN Throw ELSE Undef

-----------------------------------------------------------------------------
(* WebLogger.ts: the logging methods *)

\* a call console[fn](...args)
Write(fn, args) == [fn |-> fn, args |-> args]

\* getTimestamp(): the wall clock, left abstract
TIMESTAMP == "hh:mm:ss"

\* LOG_LEVEL_CONFIGS[level]
LOG_LEVEL_CONFIGS ==
    [debug |-> [style |-> "color: #6B7280; font-weight: normal;", label |-> "DEBUG"],
     info  |-> [style |-> "color: #3B82F6; font-weight: normal;", label |-> "INFO"],
     warn  |-> [style |-> "color: #F59E0B; font-weight: bold;", label |-> "WARN"],
     error |-> [style |-> "color: #EF4444; font-weight: bold;", label |-> "ERROR"],
     none  |-> [style |-> "", label |-> ""]]

\* s.padEnd(5)
PadEnd5(s) == IF Len(s) >= 5 THEN s ELSE s \o Repeat(" ", 5 - Len(s))

\* what kind of object the value v is: a heap object's kind, the kind of a
\* sanitized structure, or "prim" for a primitive
ObjKind(v, hp) ==
    IF v.t = "ref" THEN hp[v.id].kind
    ELSE IF v.t \in {"rec", "arr", "map", "set"} THEN v.t
    ELSE "prim"

\* Object.keys(v).length
NumKeys(v, hp) ==
    CASE v.t = "ref" /\ hp[v.id].kind = "rec" -> Len(hp[v.id].props)
      [] v.t = "ref" /\ hp[v.id].kind = "arr" -> Len(hp[v.id].items)
      [] v.t = "rec" -> Len(v.props)
      [] v.t = "arr" -> Len(v.items)
      [] OTHER -> 0

\* isMetadataCandidate(value)
IsMetadataCandidate(v, hp) == ObjKind(v, hp) \notin {"prim", "date", "buf", "typed"}

\* isStructuredObject in logWithLevel
IsStructuredObject(v, hp) == ObjKind(v, hp) \notin {"prim", "arr", "date", "buf", "typed"}

\* String(v) for a value of the program or a sanitized structure
RECURSIVE OutToStr(_, _)
OutJoin(items, i, hp, rest) ==
    IF ~rest.ok THEN Raised
    ELSE IF items[i].t \in {"null", "undef"}
    THEN Ok(IF i = Len(items) THEN "" ELSE "," \o rest.s)
    ELSE JoinTwo(OutToStr(items[i], hp), rest, i = Len(items))

RECURSIVE OutJoinFrom(_, _, _)
OutJoinFrom(items, i, hp) ==
    IF i > Len(items) THEN Ok("")
    ELSE OutJoin(items, i, hp, OutJoinFrom(items, i + 1, hp))

OutToStr(v, hp) ==
    CASE v.t = "rec" -> Ok("[object Object]")
      [] v.t = "map" -> Ok("[object Map]")
      [] v.t = "set" -> Ok("[object Set]")
      [] v.t = "arr" -> OutJoinFrom(v.items, 1, hp)
      [] OTHER -> ToStr(v, hp, {})

\* getConsoleFunction(level): the console has all four functions
GetConsoleFunction(level) ==
    IF level \in {"debug", "info", "warn", "error"} THEN level ELSE "log"

\* printMetadata(metadata): the console has table
PrintMetadata(metadata, hp) ==
    CASE ObjKind(metadata, hp) \in {"map", "set"} -> <<Write("log", <<metadata>>)>>
      [] ObjKind(metadata, hp) = "arr" -> <<Write("table", <<metadata>>)>>
      [] ObjKind(metadata, hp) \notin {"map", "set", "arr", "prim"} ->
           IF NumKeys(metadata, hp) > 0 THEN <<Write("table", <<metadata>>)>>
           ELSE <<Write("log", <<metadata>>)>>
      [] OTHER -> <<Write("log", <<metadata>>)>>

\* the line `${prefix} [${timestamp}] ${levelUpper} ${message}`
StyledLine(logger, level, message) ==
    logger.prefix \o " [" \o TIMESTAMP \o "] " \o PadEnd5(ToUpperCase(level)) \o " " \o message

\* logWithStyle(level, message, metadata, style), with a non-empty style; meta
\* is <<>> for no metadata and <<metadata>> otherwise
LogWithStyle(logger, level, message, meta, hp) ==
    (IF level \in {"debug", "info"}
     THEN <<Write("log", <<Str("%c" \o StyledLine(logger, level, message)),
                          Str(LOG_LEVEL_CONFIGS[level].style)>>)>>
     ELSE <<Write(GetConsoleFunction(level), <<Str(StyledLine(logger, level, message))>>)>>)
    \o (IF Len(meta) > 0 THEN PrintMetadata(meta[1], hp) ELSE <<>>)

\* The arguments of a logging call, each through sanitizeLogData in turn: the
\* values so far, the caches, the walk log and whether a call raised
ArgsStart(sc, mc) == [vals |-> <<>>, sc |-> sc, mc |-> mc, log |-> <<>>, threw |-> FALSE]

ArgDone(a, r) ==
    [vals |-> IF r.out = Throw THEN a.vals ELSE Append(a.vals, r.out),
     sc |-> r.st.sc, mc |-> r.st.mc, log |-> a.log \o r.st.log, threw |-> r.out = Throw]

RECURSIVE SanitizeArgs(_, _, _, _)
SanitizeArgs(a, args, i, env) ==
    IF i > Len(args) \/ a.threw THEN a
    ELSE SanitizeArgs(ArgDone(a, Sanitize(args[i], env.hp, env.ks, env.pats, env.prof,
                                          a.sc, a.mc)),
                      args, i + 1, env)

\* the arguments as they are, when masking is disabled
PlainArgs(args, sc, mc) == [ArgsStart(sc, mc) EXCEPT !.vals = args]

\* the console calls of logWithLevel for the sanitized message and parameters
\* vals = <<message>> \o params; raw are the parameters as passed.  str is
\* String(sanitizedMessage).
Emitted(threw, writes) == [threw |-> threw, writes |-> writes]

EmitLine(logger, level, str, meta, hp) ==
    IF ~str.ok THEN Emitted(TRUE, <<>>)
    ELSE Emitted(FALSE, LogWithStyle(logger, level, str.s, meta, hp))

Emit(logger, level, vals, raw, hp) ==
    CASE Len(raw) = 0 /\ IsStructuredObject(vals[1], hp) ->
           Emitted(FALSE, LogWithStyle(logger, level, "", <<vals[1]>>, hp))
      [] Len(raw) = 0 /\ ~IsStructuredObject(vals[1], hp) ->
           EmitLine(logger, level, OutToStr(vals[1], hp), <<>>, hp)
      [] Len(raw) = 1 /\ IsMetadataCandidate(raw[1], hp) ->
           EmitLine(logger, level, OutToStr(vals[1], hp), <<vals[2]>>, hp)
      [] OTHER ->
           Emitted(FALSE,
                   <<Write(GetConsoleFunction(level),
                           <<Str(logger.prefix \o " [" \o TIMESTAMP \o "] "
                                 \o LOG_LEVEL_CONFIGS[level].label)>> \o vals)>>)

\* group: console.group(`${prefix} ${title}`), then console.table(data)
EmitGroup(logger, str, data) ==
    IF ~str.ok THEN Emitted(TRUE, <<>>)
    ELSE Emitted(FALSE, <<Write("group", <<Str(logger.prefix \o " " \o str.s)>>)>>
                        \o (IF Len(data) > 0 THEN <<Write("table", data)>> ELSE <<>>))

\* what a logging call leaves in last
LogNote(level, message, out, log, prof) ==
    [op |-> level, arg |-> message, out |-> out, log |-> log, prof |-> prof,
     staleHit |-> StaleHit(log), cached |-> Cached(sanitizeCache, maskValueCache),
     before |-> Undef]

\* the early return of logWithLevel
LogSkipped(level, message, prof) ==
    /\ UNCHANGED <<sanitizeCache, maskValueCache, console>>
    /\ last' = LogNote(level, message, Undef, <<>>, prof)

\* the rest of logWithLevel, once the arguments are sanitized (a) and the
\* console calls determined (e)
LogWritten(level, message, prof, a, e) ==
    /\ sanitizeCache' = a.sc
    /\ maskValueCache' = a.mc
    /\ console' = console \o e.writes
    /\ last' = LogNote(level, message, IF a.threw \/ e.threw THEN Throw ELSE Undef, a.log, prof)

LogPassed(logger, level, message, params, prof) ==
    \E a \in {IF logger.enableMasking
              THEN SanitizeArgs(ArgsStart(sanitizeCache, maskValueCache), <<message>> \o params, 1,
                                [hp |-> heap, ks |-> sensitiveKeys, pats |-> patterns,
                                 prof |-> prof])
              ELSE PlainArgs(<<message>> \o params, sanitizeCache, maskValueCache)} :
        \E e \in {IF a.threw THEN Emitted(TRUE, <<>>)
                  ELSE Emit(logger, level, a.vals, params, heap)} :
            LogWritten(level, message, prof, a, e)

\* logWithLevel without the test of the level
LogWithLevelUngated(logger, level, message, params, prof) ==
    LogPassed(logger, level, message, params, prof)

\* logWithLevel(level, message, ...optionalParams) on the instance logger
LogWithLevel(logger, level, message, params, prof) ==
    IF ~ShouldLog(level, GetCurrentLogLevel(globalLevel, host))
    THEN LogSkipped(level, message, prof)
    ELSE LogPassed(logger, level, message, params, prof)

\* what a call on the logger leaves alone, and its count
NoteLoggerCall(maxOps) ==
    /\ nOps < maxOps
    /\ nOps' = nOps + 1
    /\ UNCHANGED <<sensitiveKeys, patterns, suppressWarnings, heap, stale, inserted, earlier>>
    /\ UNCHANGED used

\* logger.debug / info / warn / error (message, ...optionalParams)
LogCall(lvls, messages, paramLists, profs, maxOps) ==
    \E i \in 1..Len(loggers), level \in lvls, message \in messages,
       params \in paramLists, prof \in profs :
        /\ nOps < maxOps
        /\ LogWithLevel(loggers[i], level, message, params, prof)
        /\ NoteLoggerCall(maxOps)
        /\ UNCHANGED <<host, globalLevel, loggers>>

\* log(...args), group(title, data), groupEnd(), time(label), timeEnd(label)
\* behind their test of the level: the arguments that go through
\* sanitizeLogData.  data is <<>> when absent, label is the title.
MethodArgs(method, title, data) ==
    CASE method = "log" -> <<title>> \o data
      [] method = "group" -> <<title>> \o data
      [] OTHER -> <<>>

\* the console calls of the method, for the sanitized arguments vals
MethodWrites(logger, method, title, vals, hp) ==
    CASE method = "log" ->
           Emitted(FALSE, <<Write("log", <<Str(logger.prefix \o " [" \o TIMESTAMP \o "] LOG")>>
                                          \o vals)>>)
      [] method = "group" ->
           EmitGroup(logger, OutToStr(vals[1], hp), SubSeq(vals, 2, Len(vals)))
      [] method = "groupEnd" -> Emitted(FALSE, <<Write("groupEnd", <<>>)>>)
      [] OTHER -> Emitted(FALSE, <<Write(method, <<Str(logger.prefix \o " " \o title.s)>>)>>)

MethodPassed(logger, method, title, data, prof) ==
    \E a \in {IF logger.enableMasking
               THEN SanitizeArgs(ArgsStart(sanitizeCache, maskValueCache),
                                 MethodArgs(method, title, data), 1,
                                 [hp |-> heap, ks |-> sensitiveKeys, pats |-> patterns,
                                  prof |-> prof])
               ELSE PlainArgs(MethodArgs(method, title, data), sanitizeCache,
                              maskValueCache)} :
        \E e \in {IF a.threw THEN Emitted(TRUE, <<>>)
                  ELSE MethodWrites(logger, method, title, a.vals, heap)} :
            LogWritten(method, title, prof, a, e)

\* logger.log / group / groupEnd / time / timeEnd
MethodCall(methods, titles, datas, profs, maxOps) ==
    \E i \in 1..Len(loggers), method \in methods, title \in titles,
       data \in datas, prof \in profs :
        /\ nOps < maxOps
        /\ IF GetCurrentLogLevel(globalLevel, host) = "none"
           THEN LogSkipped(method, title, prof)
           ELSE MethodPassed(loggers[i], method, title, data, prof)
        /\ NoteLoggerCall(maxOps)
        /\ UNCHANGED <<host, globalLevel, loggers>>

\* logger.setLogLevel(level)
SetLogLevel(lvls, maxOps) ==
    \E level \in lvls :
        /\ SetLevel(level)
        /\ last' = [NoCall EXCEPT !.op = "setLogLevel", !.arg = Str(level),
                                  !.out = SetLevelOut(level, host)]
        /\ NoteLoggerCall(maxOps)
        /\ UNCHANGED <<sanitizeCache, maskValueCache, host, console, loggers>>

\* WebLoggerOptions: each option is absent (<<>>) or present (<<value>>);
\* sensitivePatterns is given by the entries of the object as written
Options(enableMasking, keys, pats, suppress) ==
    [enableMasking |-> enableMasking, sensitiveKeys |-> keys, sensitivePatterns |-> pats,
     suppressPatternWarnings |-> suppress]
NoOptions == Options(<<>>, <<>>, <<>>, <<>>)

\* the fields of a new instance
Constructed(prefix, options, h) ==
    [prefix |-> prefix,
     enableMasking |-> IF options.enableMasking = <<>> THEN ~IsDevelopment(h)
                       ELSE options.enableMasking[1]]

\* applyOptions, a sensitiveKeys option that is added to the key set
KeysOptionMerged(options, ks) ==
    IF options.sensitiveKeys # <<>> THEN ks \cup LowerCased(options.sensitiveKeys[1]) ELSE ks

\* applyOptions: the key set after the sensitiveKeys option
KeysOption(options, ks) ==
    IF options.sensitiveKeys # <<>> THEN LowerCased(options.sensitiveKeys[1]) ELSE ks

\* applyOptions: the sensitivePatterns option is used when the object has a key
ReplacesPatterns(options) ==
    /\ options.sensitivePatterns # <<>>
    /\ Len(ObjectLiteral(options.sensitivePatterns[1])) > 0

PatternsOption(options) == NormalizePatterns(ObjectLiteral(options.sensitivePatterns[1]))

\* applyOptions(options): setKeys, then setPatterns, then setSuppressWarnings
ApplyOptions(options) ==
    /\ sensitiveKeys' = KeysOption(options, sensitiveKeys)
    /\ patterns' = IF ReplacesPatterns(options) THEN PatternsOption(options) ELSE patterns
    /\ console' = console \o (IF ReplacesPatterns(options)
                               THEN WarnIfDefaultsMissing(PatternsOption(options))
                               ELSE <<>>)
    /\ suppressWarnings' = IF options.suppressPatternWarnings # <<>>
                           THEN options.suppressPatternWarnings[1]
                           ELSE suppressWarnings
    /\ IF options.sensitiveKeys # <<>> \/ ReplacesPatterns(options)
       THEN ClearSanitizeCache
       ELSE UNCHANGED <<sanitizeCache, maskValueCache>>

\* the constructor's argument, as last keeps it
OptionsArg(prefix, options) == [t |-> "options", prefix |-> prefix, options |-> options]

\* new WebLogger(prefix, options)
NewWebLogger(prefixes, optionSets, maxOps) ==
    \E prefix \in prefixes, options \in optionSets :
        /\ loggers' = Append(loggers, Constructed(prefix, options, host))
        /\ ApplyOptions(options)
        /\ NoteCall("new WebLogger", OptionsArg(prefix, options), maxOps)
        /\ inserted' = IF ReplacesPatterns(options)
                       THEN WrittenNames(options.sensitivePatterns[1])
                       ELSE inserted

\* logger.withPrefix(prefix) on the instance loggers[i]; createPrefixedLogger
\* is withPrefix on the default instance
WithPrefix(prefixes, maxOps) ==
    \E i \in 1..Len(loggers), prefix \in prefixes :
        /\ loggers' = Append(loggers, Constructed(prefix, NoOptions, host))
        /\ ApplyOptions(NoOptions)
        /\ NoteCall("withPrefix", Num(i), maxOps)
        /\ UNCHANGED inserted

\* maskSensitiveValue(value, key), called directly (the function is exported)
MaskCall(values, keys, maxOps) ==
    /\ nOps < maxOps
    /\ \E value \in values, key \in keys :
          \E m \in {MaskSensitiveValue(value, key, heap, maskValueCache)} :
              /\ maskValueCache' = m.mc
              /\ last' = [NoCall EXCEPT !.op = "mask", !.arg = value, !.out = m.out,
                                        !.log = <<MaskEvent(value, 0, key, m.hit)>>,
                                        !.cached = Len(maskValueCache)]
    /\ nOps' = nOps + 1
    /\ UNCHANGED <<sensitiveKeys, patterns, suppressWarnings, sanitizeCache, heap, stale,
                   inserted, earlier>>
    /\ UNCHANGED logVars
    /\ UNCHANGED used

\* The mask-result cache used directly (maskValueCache is exported): get, set
\* and clear.  now is the time of the call.
CacheNote(op, key, out, maxOps) ==
    /\ nOps < maxOps
    /\ nOps' = nOps + 1
    /\ last' = [NoCall EXCEPT !.op = op, !.arg = Str(key), !.out = out,
                              !.cached = Len(maskValueCache)]
    /\ UNCHANGED <<sensitiveKeys, patterns, suppressWarnings, sanitizeCache, heap, stale,
                   inserted, earlier>>
    /\ UNCHANGED logVars

CacheGet(keys, now, maxOps) ==
    \E key \in keys :
        /\ maskValueCache' = LRUGet(maskValueCache, key)
        /\ used' = IF LRUHas(maskValueCache, key) THEN (key :> now) @@ used ELSE used
        /\ CacheNote("get", key,
                     IF LRUHas(maskValueCache, key) THEN Str(LRUValue(maskValueCache, key))
                     ELSE Undef,
                     maxOps)

CacheSet(keys, values, now, maxOps) ==
    \E key \in keys, value \in values :
        /\ maskValueCache' = LRUSet(maskValueCache, key, value, LRU_MAX_SIZE)
        /\ used' = (key :> now) @@ used
        /\ CacheNote("set", key, Undef, maxOps)

CacheClear(maxOps) ==
    /\ maskValueCache' = <<>>
    /\ UNCHANGED used
    /\ CacheNote("clear", "", Undef, maxOps)

\* isSensitive(key) for any value: a value that is not a string gives false
IsSensitiveOf(ks, v) == IsStr(v) /\ IsSensitive(ks, v.s)

\* SensitiveKeysManager.isSensitive(name), called directly
IsSensitiveCall(names, maxOps) ==
    /\ nOps < maxOps
    /\ nOps' = nOps + 1
    /\ \E name \in names :
          last' = [NoCall EXCEPT !.op = "isSensitive", !.arg = name,
                                 !.out = Bool(IsSensitiveOf(sensitiveKeys, name))]
    /\ UNCHANGED <<sensitiveKeys, patterns, suppressWarnings, sanitizeCache, maskValueCache,
                   heap, stale, inserted, earlier, used>>
    /\ UNCHANGED logVars

\* What the host program does to its own objects between calls:
\* obj[name] = value and delete obj[name] on the plain record id
NoteHostStep(op, id, maxOps) ==
    /\ nOps < maxOps
    /\ nOps' = nOps + 1
    /\ last' = [NoCall EXCEPT !.op = op, !.arg = Ref(id)]
    /\ UNCHANGED <<sensitiveKeys, patterns, suppressWarnings, sanitizeCache, maskValueCache,
                   stale, inserted, earlier, used>>
    /\ UNCHANGED logVars

AssignProperty(ids, names, values, maxOps) ==
    \E id \in ids, name \in names, value \in values :
        /\ heap' = [heap EXCEPT ![id].props = DefineProp(@, name, value)]
        /\ NoteHostStep("assign", id, maxOps)

DeleteProperty(ids, names, maxOps) ==
    \E id \in ids, name \in names :
        /\ heap' = [heap EXCEPT ![id].props = SelectSeq(@, LAMBDA p : p.k # name)]
        /\ NoteHostStep("delete", id, maxOps)

-----------------------------------------------------------------------------
(* Spec: the registries and the caches *)

KeyInputs == {"", "customField", "EMAIL"}
KeyListInputs == {<<"customField", "">>}
CustomPatterns == <<Prop("custom", RegExp({"secret123"}))>>
MixedPatterns == <<Prop("email", RegExp({"user@example.com", "a@b.cc"})),
                   Prop("junk", NotARegExp)>>
PatternInputs == {CustomPatterns, MixedPatterns}
RegistryRoots == {Ref(7), Ref(2)}

Next ==
    \/ AddSensitiveKey(KeyInputs, MaxOps)
    \/ RemoveSensitiveKey(KeyInputs, MaxOps)
    \/ SetSensitiveKeys(KeyListInputs, MaxOps)
    \/ ResetSensitiveKeys(MaxOps)
    \/ SetSensitivePatterns(PatternInputs, MaxOps)
    \/ AddSensitivePatterns(PatternInputs, MaxOps)
    \/ ResetSensitivePatterns(MaxOps)
    \/ SanitizeCall(RegistryRoots, {Instant, FirstSlow}, MaxOps)

Spec == Init /\ [][Next]_vars

-----------------------------------------------------------------------------
(* Cache coherency (C1, C2), under Spec *)

CachesEmpty == sanitizeCache = EmptyWeakMap /\ maskValueCache = <<>>

RegistryOps ==
    {"addSensitiveKey", "removeSensitiveKey", "setSensitiveKeys", "resetSensitiveKeys",
     "setSensitivePatterns", "addSensitivePatterns", "resetSensitivePatterns"}

IsUnsafeKey(k) == \E j \in 1..Len(UNSAFE_KEYS) : UNSAFE_KEYS[j] = k

\* every string property of the record rec whose name the key set ks matches
\* holds its mask in the result out
SensitivePropsMasked(rec, out, ks) ==
    \A i \in 1..Len(rec.props) :
        (/\ IsSensitive(ks, rec.props[i].k)
         /\ ~IsUnsafeKey(rec.props[i].k)
         /\ IsStr(rec.props[i].v)
         /\ Len(rec.props[i].v.s) > 0)
        => Get(out.props, rec.props[i].k)
             = Str(MaskCompute(rec.props[i].v.s, rec.props[i].k))

\* C1: in every interleaving of registry mutations through the public API and
\* sanitize calls, no sanitize call takes a result from a cache entry that was
\* produced before the last registry mutation; in particular every property of
\* a sanitized record whose name the key registry matches at the time of the
\* call is masked, whatever an earlier call on the same object returned.
C1_NoStaleCacheEntry ==
    /\ last.staleHit = FALSE
    /\ (last.op = "sanitize" /\ IsRef(last.arg) /\ heap[last.arg.id].kind = "rec")
         => SensitivePropsMasked(heap[last.arg.id], last.out, sensitiveKeys)

\* the record of customField, sanitized unmasked before addSensitiveKey, is
\* sanitized again afterwards and has the property masked
C1_Witness ==
    /\ last.op = "sanitize" /\ last.arg = Ref(7)
    /\ last.before # Undef
    /\ Get(last.before.props, "customField") = Str("secret123")
    /\ Get(last.out.props, "customField") = Str("se***")

-----------------------------------------------------------------------------
(* SpecWalk: sanitize calls on the structures of the heap, default registries *)

WalkRoots ==
    {Ref(1), Ref(2), Ref(3), Ref(5), Ref(6), Ref(8), Ref(10), Ref(11), Ref(12), Ref(14),
     Ref(16), Ref(17), Ref(18), Ref(19), Ref(20), Chain(0), Chain(1), Chain(2),
     Str("user@example.com"), Null}

NextWalk == SanitizeCall(WalkRoots, {Instant}, MaxCalls)

SpecWalk == Init /\ [][NextWalk]_vars

\* the objects that the object o refers to
Children(o) ==
    CASE o.kind = "rec" -> {o.props[i].v.id : i \in {j \in 1..Len(o.props) : IsRef(o.props[j].v)}}
      [] o.kind \in {"arr", "set"} ->
           {o.items[i].id : i \in {j \in 1..Len(o.items) : IsRef(o.items[j])}}
      [] o.kind = "map" ->
           {o.entries[i].mk.id : i \in {j \in 1..Len(o.entries) : IsRef(o.entries[j].mk)}}
           \cup {o.entries[i].mv.id : i \in {j \in 1..Len(o.entries) : IsRef(o.entries[j].mv)}}
      [] OTHER -> {}

\* the objects reachable from those of frontier, seen included
RECURSIVE ReachFrom(_, _)
ReachFrom(frontier, seen) ==
    IF frontier \subseteq seen THEN seen
    ELSE ReachFrom(UNION {Children(heap[id]) : id \in frontier \ seen}, seen \cup frontier)

\* no object reachable from the object id lies on a cycle
Acyclic(id) ==
    \A x \in ReachFrom({id}, {}) : x \notin ReachFrom(Children(heap[x]), {})

\* the result out holds the string value m somewhere
RECURSIVE Holds(_, _)
Holds(out, m) ==
    CASE out.t = "rec" -> \E i \in 1..Len(out.props) : Holds(out.props[i].v, m)
      [] out.t \in {"arr", "set"} -> \E i \in 1..Len(out.items) : Holds(out.items[i], m)
      [] out.t = "map" -> \E i \in 1..Len(out.entries) :
                              Holds(out.entries[i].mk, m) \/ Holds(out.entries[i].mv, m)
      [] OTHER -> out = m

\* a property that the loop over a record hands to the walker
Walked(p) == ~IsUnsafeKey(p.k) /\ ~IsSensitive(sensitiveKeys, p.k)

\* C3 (as stated, for the graphs without a cycle, where no object is its own
\* ancestor): every object is sanitized normally wherever it occurs, so the
\* result of a sanitize call holds no "[CIRCULAR]".
C3_PathSensitive ==
    (last.op = "sanitize" /\ IsRef(last.arg) /\ Acyclic(last.arg.id))
    => ~Holds(last.out, CIRCULAR)

\* v and its result out, met below the ancestors anc: every reference of v
\* back to an ancestor is "[CIRCULAR]" in out
RECURSIVE BackRefsMarked(_, _, _)
BackRefsIn(o, id, out, anc) ==
    CASE o.kind = "rec" /\ out.t = "rec" ->
           \A i \in 1..Len(o.props) :
               (Walked(o.props[i]) /\ HasKey(out.props, o.props[i].k))
               => BackRefsMarked(o.props[i].v, Get(out.props, o.props[i].k), anc \cup {id})
      [] o.kind = "arr" /\ out.t = "arr" ->
           \A i \in 1..Len(o.items) : BackRefsMarked(o.items[i], out.items[i], anc \cup {id})
      [] o.kind = "set" /\ out.t = "set" /\ Len(o.items) = Len(out.items) ->
           \A i \in 1..Len(o.items) : BackRefsMarked(o.items[i], out.items[i], anc \cup {id})
      [] o.kind = "map" /\ out.t = "map" /\ Len(o.entries) = Len(out.entries) ->
           \A i \in 1..Len(o.entries) :
               ~(IsStr(o.entries[i].mk) /\ IsSensitive(sensitiveKeys, o.entries[i].mk.s))
               => BackRefsMarked(o.entries[i].mv, out.entries[i].mv, anc \cup {id})
      [] OTHER -> TRUE

BackRefsMarked(v, out, anc) ==
    IF ~IsRef(v) THEN TRUE
    ELSE IF v.id \in anc THEN out = CIRCULAR
    ELSE BackRefsIn(heap[v.id], v.id, out, anc)

\* C4 (as stated): a sanitize call returns, and in its result every reference
\* back to an ancestor on the traversal path is the string "[CIRCULAR]".
C4_BackReferencesMarked ==
    (last.op = "sanitize" /\ last.out # Throw) => BackRefsMarked(last.arg, last.out, {})

\* v and its result out, met at depth d: out is "[MAX_DEPTH]" exactly when
\* d > MAX_DEPTH, and so on below
RECURSIVE DepthMarked(_, _, _)
DepthBelow(o, out, d) ==
    CASE o.kind = "rec" /\ out.t = "rec" ->
           \A i \in 1..Len(o.props) :
               (Walked(o.props[i]) /\ HasKey(out.props, o.props[i].k))
               => DepthMarked(o.props[i].v, Get(out.props, o.props[i].k), d + 1)
      [] o.kind = "arr" /\ out.t = "arr" ->
           \A i \in 1..Len(o.items) : DepthMarked(o.items[i], out.items[i], d + 1)
      [] OTHER -> TRUE

DepthMarked(v, out, d) ==
    IF d > MAX_DEPTH THEN out = MAXDEPTH
    ELSE /\ out # MAXDEPTH
         /\ IsRef(v) => DepthBelow(heap[v.id], out, d)

\* C5 (as stated): in the result of a sanitize call, the value reached at
\* depth d is "[MAX_DEPTH]" exactly when d > 10.
C5_DepthMarkerExactly ==
    (last.op = "sanitize" /\ last.out # Throw) => DepthMarked(last.arg, last.out, 0)

\* C6 (as stated): a sanitize call returns normally, whatever its input.
C6_NeverThrows ==
    last.op = "sanitize" => last.out # Throw

\* what maskSensitiveValue(v, k) computes
MaskOf(v, k) == MaskSensitiveValue(v, k, heap, <<>>).out

\* the pattern guard's result for the string value v, under the registry and
\* the clock of the last call
GuardOf(v) == Str(SanitizeString(v.s, [pats |-> patterns, prof |-> last.prof]))

\* the property events of the last call
PropEvents == {i \in 1..Len(last.log) : last.log[i].e = "prop"}

C8_UnsafeKeysMarked ==
    (last.op = "sanitize" /\ IsRef(last.arg) /\ heap[last.arg.id].kind = "rec"
       /\ last.out # Throw)
    => \A i \in 1..Len(heap[last.arg.id].props) :
          IsUnsafeKey(heap[last.arg.id].props[i].k)
          => /\ HasKey(last.out.props, heap[last.arg.id].props[i].k)
             /\ Get(last.out.props, heap[last.arg.id].props[i].k) = UNSAFE_KEY
             /\ IsRef(heap[last.arg.id].props[i].v)
                  => \A j \in 1..Len(last.log) :
                        last.log[j].e \in {"walk", "mask"}
                        => last.log[j].v # heap[last.arg.id].props[i].v

-----------------------------------------------------------------------------
(* SpecTrunc: sanitizeLogData on one long string, with the default patterns *)

MaxEmails == 6
MaxOver == 2

\* k addresses, then filler up to over characters past MAX_STRING_LENGTH
LongInput(k, fill, over) ==
    Repeat("a@b.cc ", k) \o Repeat(fill, MAX_STRING_LENGTH + over - k * Len("a@b.cc "))

\* the inputs: the strings above, and 'a'.repeat(6000)
TruncInputs ==
    {Str(LongInput(k, fill, over)) : k \in 0..MaxEmails, fill \in {" ", "#"}, over \in 0..MaxOver}
    \cup {Str(Repeat("a", MAX_STRING_LENGTH + 1000))}

\* the caller holds the argument data
Pending(data) == [NoCall EXCEPT !.op = "input", !.arg = data]

InitTrunc == \E data \in TruncInputs : Loaded(Pending(data))

\* sanitizeLogData(data) on the argument held
SanitizeInput(profs) ==
    /\ last.op = "input"
    /\ \E prof \in profs :
          \E r \in {Sanitize(last.arg, heap, sensitiveKeys, patterns, prof,
                             sanitizeCache, maskValueCache)} :
              SanitizeDone(last.arg, prof, r)

NextTrunc == SanitizeInput({Instant, FirstSlow})

SpecTrunc == InitTrunc /\ [][NextTrunc]_vars

\* the last call sanitized a string longer than MAX_STRING_LENGTH
LongCall == last.op = "sanitize" /\ IsStr(last.arg) /\ Len(last.arg.s) > MAX_STRING_LENGTH

\* text holds a match of some pattern that is shorter than the tag replacing it
Lengthens(text) ==
    \E i \in 1..Len(patterns) :
        \E l \in patterns[i].v.lits :
            Len(l) < Len(patterns[i].k) + 2 /\ Includes(text, l)

\* C9 (amended): a string longer than 5000 characters is cut to its first 5000
\* characters, the truncation marker is appended, and the pattern guard runs on
\* that text.  With the default patterns the result contains the marker; its
\* length is at most 5000 plus the marker's length when the cut text holds no
\* match that is shorter than its tag (an address like a@b.cc becomes the
\* longer [EMAIL]).
C9_TruncatedThenGuarded ==
    LongCall =>
        /\ last.out = Str(ApplyRegexWithTimeout(
                             Slice0(last.arg.s, MAX_STRING_LENGTH) \o TRUNCATED_MARK,
                             patterns, last.prof))
        /\ Includes(last.out.s, TRUNCATED_MARK)
        /\ (~Lengthens(Slice0(last.arg.s, MAX_STRING_LENGTH))
              => Len(last.out.s) <= MAX_STRING_LENGTH + Len(TRUNCATED_MARK))

\* a long string without any match: the result is the cut text and the marker
C9_Witness ==
    /\ LongCall
    /\ Len(last.out.s) = MAX_STRING_LENGTH + Len(TRUNCATED_MARK)
    /\ last.out.s = Slice0(last.arg.s, MAX_STRING_LENGTH) \o TRUNCATED_MARK

\* C9 as stated: the result of a string longer than 5000 characters has at most
\* 5000 plus the marker's length characters and contains the marker
C9_LengthAtMostCutPlusMarker ==
    LongCall =>
        /\ Len(last.out.s) <= MAX_STRING_LENGTH + Len(TRUNCATED_MARK)
        /\ Includes(last.out.s, TRUNCATED_MARK)

-----------------------------------------------------------------------------
(* SpecGuard: the pattern registry and the guard on strings *)

NumberedPattern == <<Prop("1", RegExp({"user@example.com"}))>>
FailingPattern == <<Prop("bad", ThrowingRegExp)>>
GuardPatterns == {NumberedPattern, FailingPattern, CustomPatterns}
GuardRoots == {Str("user@example.com"), Str("call 010-1234-5678"), Str("secret123 for a@b.cc")}
SecondSlow == <<0, REGEX_TIMEOUT_MS + 1>>

NextGuard ==
    \/ AddSensitivePatterns(GuardPatterns, MaxOps)
    \/ ResetSensitivePatterns(MaxOps)
    \/ SanitizeCall(GuardRoots, {Instant, FirstSlow, SecondSlow}, MaxOps)

SpecGuard == Init /\ [][NextGuard]_vars

\* the registry's entries in the order in which their names were inserted
InInsertionOrder(pats, names) == [i \in 1..Len(names) |-> Prop(names[i], Get(pats, names[i]))]

\* C10: the guard applies the registry's patterns in insertion order, tests the
\* time elapsed before each one, applies no further pattern once it exceeds
\* the budget, and returns the text with the patterns applied so far
C10_InsertionOrderWithinBudget ==
    (last.op = "sanitize" /\ IsStr(last.arg)) =>
        last.out = Str(ApplyRegexWithTimeout(last.arg.s,
                                             InInsertionOrder(patterns, inserted),
                                             last.prof))

\* the position of the name k in the property list props
IndexOfKey(props, k) == CHOOSE i \in 1..Len(props) : props[i].k = k

\* the registry pats with every pattern that raises replaced by one that
\* matches nothing
WithoutFailing(pats) ==
    [i \in 1..Len(pats) |-> IF pats[i].v.throws THEN Prop(pats[i].k, RegExp({})) ELSE pats[i]]

\* C11: when applying a pattern raises an error, only that pattern's
\* replacement is dropped: the guard returns the text that it returns, on the
\* same clock, for the registry in which each failing pattern matches
\* nothing, so every other pattern is applied, in the registry's order.
C11_FailingPatternSkipped ==
    (last.op = "sanitize" /\ IsStr(last.arg)) =>
        last.out = Str(ApplyRegexWithTimeout(last.arg.s, WithoutFailing(patterns), last.prof))

\* the failing pattern bad stands before custom in the registry, and both the
\* patterns before it (email) and the one after it (custom) are applied
C11_Witness ==
    /\ last.op = "sanitize" /\ last.arg = Str("secret123 for a@b.cc")
    /\ HasKey(patterns, "bad") /\ HasKey(patterns, "custom")
    /\ Get(patterns, "bad").throws
    /\ IndexOfKey(patterns, "bad") < IndexOfKey(patterns, "custom")
    /\ last.out = Str("[CUSTOM] for [EMAIL]")

-----------------------------------------------------------------------------
(* SpecLog: the logging methods, the log level and the console *)

MaxLogOps == 2

DevelopmentHost == [dev |-> TRUE, seed |-> "", envLevel |-> ""]
SeededHost == [dev |-> FALSE, seed |-> "error", envLevel |-> ""]
EnvHost == [dev |-> FALSE, seed |-> "", envLevel |-> "info"]
Hosts == {ProductionHost, DevelopmentHost, SeededHost, EnvHost}

LogMethods == {"debug", "info", "warn", "error"}
LevelInputs == {"debug", "warn", "error", "none", "verbose"}
LogMessages == {Str("user@example.com"), Ref(2)}
LogParams == {<<>>, <<Ref(7)>>, <<Num(1)>>}

InitLog == \E h \in Hosts : LoadedOn(NoCall, h)

NextLog ==
    \/ SetLogLevel(LevelInputs, MaxLogOps)
    \/ NewWebLogger({"[Sub]"}, {NoOptions, Options(<<TRUE>>, <<>>, <<>>, <<>>),
                                 Options(<<FALSE>>, <<>>, <<>>, <<>>)}, MaxLogOps)
    \/ LogCall(LogMethods, LogMessages, LogParams, {Instant}, MaxLogOps)

SpecLog == InitLog /\ [][NextLog]_vars

\* the order of the levels, none above all
LevelRank(level) ==
    CHOOSE i \in 1..5 : <<"debug", "info", "warn", "error", "none">>[i] = level

\* the active log level
ActiveLevel == GetCurrentLogLevel(globalLevel, host)

\* C12: a debug, info, warn or error call whose level is below the active log
\* level returns before the sanitizer is invoked: the call makes no sanitize
\* or mask call, leaves both caches as they are and writes nothing to the
\* console.
C12_BelowLevelReturnsEarly ==
    [][(/\ nOps' = nOps + 1
        /\ last'.op \in LogMethods
        /\ LevelRank(last'.op) < LevelRank(ActiveLevel))
       => (/\ last'.log = <<>>
           /\ sanitizeCache' = sanitizeCache
           /\ maskValueCache' = maskValueCache
           /\ console' = console)]_vars

\* after a warn call that was sanitized and written, a debug call on the
\* masking logger under the level warn: no walk, the caches and the console
\* as the first call left them
C12_Witness ==
    /\ last.op = "debug" /\ last.arg = Ref(2)
    /\ ActiveLevel = "warn"
    /\ \A i \in 1..Len(loggers) : loggers[i].enableMasking
    /\ last.log = <<>>
    /\ last.cached > 0
    /\ Cached(sanitizeCache, maskValueCache) = last.cached
    /\ Len(console) = 2

-----------------------------------------------------------------------------
(* SpecMask: maskSensitiveValue and the mask-result cache *)

MaxMaskOps == 2

MaskValues ==
    {Str("abc@d.com"), Str("abc@d.com|email"), Str("user@example.com"), Str("a@b@c"),
     Str("@b"), Str("a@"), Str("ab"), Str("mypassword123"), Null, Num(12345)}
MaskKeyInputs == {"email", "token", "email|token", "password", ""}

NextMask == MaskCall(MaskValues, MaskKeyInputs, MaxMaskOps)

SpecMask == Init /\ [][NextMask]_vars

\* the last call was maskSensitiveValue(last.arg, MaskKey)
MaskKey == last.log[1].k
\* String(value) of the last call
MaskStr == ToStr(last.arg, heap, {}).s

\* C13 (as stated): a result of maskSensitiveValue served from the mask-result
\* cache is the string that a fresh computation for the same (stringified
\* value, key) pair gives, so that no two different pairs share an entry.
C13_CachedMaskIsFresh ==
    (last.op = "mask" /\ last.log[1].hit # "")
    => last.out = Str(MaskCompute(MaskStr, MaskKey))

\* the key takes the email strategy on the string str
EmailStrategy(key, str) == Includes(ToLowerCase(key), "email") /\ Includes(str, "@")

\* the parts of str around its first "@"
LocalPart(str) == SubSeq(str, 1, IndexOfFrom(str, "@", 1) - 1)
DomainPart(str) == SubSeq(str, IndexOfFrom(str, "@", 1) + 1, Len(str))

\* C14 (as stated): for a key whose name contains "email" and a string form
\* that contains "@", the mask is built from the local part before the first
\* "@" and the domain, everything after that first "@": a placeholder form
\* when either is empty, "***@" and the domain when the local part has at most
\* 3 characters, else the first 3 characters of the local part, "***@" and the
\* domain.
C14_EmailSplitAtFirstAt ==
    (last.op = "mask" /\ last.out # Throw /\ EmailStrategy(MaskKey, MaskStr))
    => IF LocalPart(MaskStr) = "" \/ DomainPart(MaskStr) = ""
       THEN last.out \in {Str("***"), Str("***@" \o DomainPart(MaskStr))}
       ELSE IF Len(LocalPart(MaskStr)) <= 3
       THEN last.out = Str("***@" \o DomainPart(MaskStr))
       ELSE last.out = Str(Slice0(LocalPart(MaskStr), 3) \o "***@" \o DomainPart(MaskStr))

\* C15 (as stated): for a sensitive key that does not take the email strategy,
\* the mask is "***" when the value is null, undefined or has a string form of
\* at most 2 characters, and the first 2 characters of the string form
\* followed by "***" otherwise.
C15_FirstTwoCharacters ==
    (/\ last.op = "mask" /\ last.out # Throw
     /\ IsSensitive(sensitiveKeys, MaskKey)
     /\ ~EmailStrategy(MaskKey, MaskStr))
    => last.out = IF last.arg.t \in {"null", "undef"} \/ Len(MaskStr) <= 2
                  THEN Str("***")
                  ELSE Str(Slice0(MaskStr, 2) \o "***")

-----------------------------------------------------------------------------
(* Maps (C16), under SpecWalk *)

\* the last call sanitized a Map and returned
MapCall ==
    /\ last.op = "sanitize" /\ IsRef(last.arg)
    /\ heap[last.arg.id].kind = "map"
    /\ last.out # Throw

\* the entry o of the result is what the entry e of the Map gives
EntryKept(e, o) ==
    IF IsStr(e.mk) /\ IsSensitive(sensitiveKeys, e.mk.s)
    THEN o.mk = MaskOf(e.mk, e.mk.s) /\ o.mv = MaskOf(e.mv, e.mk.s)
    ELSE /\ IsStr(e.mk) => o.mk = GuardOf(e.mk)
         /\ IsStr(e.mv) => o.mv = GuardOf(e.mv)

\* C16 (as stated): the sanitized Map has exactly as many entries as the
\* input, and each entry of the input appears as its own entry: the mask of
\* the key and the mask of the value under that key when the key is a string
\* that the key registry matches, the sanitized key and value otherwise.
C16_MapEntriesKept ==
    MapCall =>
        /\ Len(last.out.entries) = Len(heap[last.arg.id].entries)
        /\ \A i \in 1..Len(last.out.entries) :
              EntryKept(heap[last.arg.id].entries[i], last.out.entries[i])

-----------------------------------------------------------------------------
(* SpecCache: the mask-result cache, one entry short of its capacity *)

MaxCacheOps == 3

\* the cache after set("1", v), ..., set(n, v) on the empty cache
Filled(n) == [i \in 1..n |-> Prop(ToString(i), "va***")]
FilledAt(n) == [k \in {ToString(i) : i \in 1..n} |-> CHOOSE i \in 1..n : ToString(i) = k]

InitCache ==
    /\ host = ProductionHost /\ globalLevel = "" /\ console = <<>>
    /\ loggers = <<DefaultLogger(ProductionHost)>>
    /\ sensitiveKeys = DefaultKeySet
    /\ patterns = Spread(<<>>, DEFAULT_SENSITIVE_PATTERNS)
    /\ suppressWarnings = FALSE
    /\ sanitizeCache = EmptyWeakMap
    /\ maskValueCache = Filled(LRU_MAX_SIZE - 1)
    /\ heap = Heap0
    /\ last = NoCall
    /\ stale = [obj |-> {}, mask |-> {}]
    /\ inserted = Keys(DEFAULT_SENSITIVE_PATTERNS)
    /\ earlier = <<>>
    /\ nOps = 0
    /\ used = FilledAt(LRU_MAX_SIZE - 1)

CacheKeys == {"1", "2", "x|email", "y|token"}

NextCache ==
    \/ CacheGet(CacheKeys, LRU_MAX_SIZE + nOps, MaxCacheOps)
    \/ CacheSet(CacheKeys, {"ab***"}, LRU_MAX_SIZE + nOps, MaxCacheOps)
    \/ CacheClear(MaxCacheOps)

SpecCache == InitCache /\ [][NextCache]_vars

\* the key of the cache c that was read or written least recently
LeastRecentlyUsed(c, at) ==
    CHOOSE k \in MaskKeys(c) : \A j \in MaskKeys(c) : at[k] <= at[j]

\* C17: after any sequence of get, set and clear calls the mask-result cache
\* holds at most its capacity of entries, and a set of a new key that arrives
\* at capacity removes exactly the entry read or written least recently.
C17_CapacityAndLeastRecentlyUsed ==
    [][/\ Len(maskValueCache') <= LRU_MAX_SIZE
       /\ (/\ last'.op = "set" /\ nOps' = nOps + 1
           /\ last'.arg.s \notin MaskKeys(maskValueCache)
           /\ Len(maskValueCache) = LRU_MAX_SIZE)
          => /\ MaskKeys(maskValueCache) \ MaskKeys(maskValueCache')
                  = {LeastRecentlyUsed(maskValueCache, used)}
             /\ LRUHas(maskValueCache', last'.arg.s)]_vars

\* entry 1 was read, the cache was filled to its capacity, and a further new
\* key removed entry 2 and kept entry 1
C17_Witness ==
    /\ last.op = "set" /\ last.cached = LRU_MAX_SIZE
    /\ Len(maskValueCache) = LRU_MAX_SIZE
    /\ LRUHas(maskValueCache, "1") /\ ~LRUHas(maskValueCache, "2")
    /\ LRUHas(maskValueCache, "x|email") /\ LRUHas(maskValueCache, "y|token")

-----------------------------------------------------------------------------
(* SpecKeys: the key registry and isSensitive *)

MaxKeyOps == 2

KeyNames == {"", "CustomKey", "accessToken", "EMAIL", "token"}
KeyLists == {<<"CustomKey", "">>, <<"password", "Token">>}
NameInputs == {Str("myCustomKeyId"), Str("accessToken"), Str("Email"), Str(""), Num(7)}

NextKeys ==
    \/ AddSensitiveKey(KeyNames, MaxKeyOps)
    \/ RemoveSensitiveKey(KeyNames, MaxKeyOps)
    \/ SetSensitiveKeys(KeyLists, MaxKeyOps)
    \/ ResetSensitiveKeys(MaxKeyOps)
    \/ IsSensitiveCall(NameInputs, MaxKeyOps)
    \/ SanitizeCall({Ref(21)}, {Instant}, MaxKeyOps)

SpecKeys == Init /\ [][NextKeys]_vars

\* k has no upper-case letter
IsLowerCase(k) == \A i \in 1..Len(k) : Char(k, i) \notin DOMAIN UpperToLower

\* some stored keyword occurs in the string name, lower-cased, at some position
ContainsKeyword(name) ==
    \E k \in sensitiveKeys : \E i \in 1..Len(name) : MatchAt(ToLowerCase(name), k, i)

PropertyUnder(id, k, ks) ==
    Get(Sanitize(Ref(id), heap, ks, patterns, Instant, EmptyWeakMap, <<>>).out.props, k)

\* C19 (as stated): when removeSensitiveKey(k) returns for a keyword k that
\* was registered, isSensitive(k) is false and sanitizing a record with a
\* property named k does not give the key mask of that property's value.
C19_RemovedKeyNotSensitive ==
    [][(/\ nOps' = nOps + 1
        /\ last'.op = "removeSensitiveKey"
        /\ ToLowerCase(last'.arg.s) \in sensitiveKeys)
       => /\ ~IsSensitive(sensitiveKeys', last'.arg.s)
          /\ \A id \in {21} :
                HasKey(heap[id].props, last'.arg.s)
                => PropertyUnder(id, last'.arg.s, sensitiveKeys')
                     # MaskOf(Get(heap[id].props, last'.arg.s), last'.arg.s)]_vars

-----------------------------------------------------------------------------
(* SpecPatterns: the pattern registry and its warning *)

MaxPatternOps == 3

TicketPattern == Prop("ticket", RegExp({"TICKET-1"}))
\* every built-in name and one more: nothing is missing
WithAllDefaults == DEFAULT_SENSITIVE_PATTERNS \o <<TicketPattern>>
\* an own property named __proto__ (a computed name, Object.fromEntries)
ProtoPatterns == <<Prop("__proto__", RegExp({"secret123"})), TicketPattern>>
ReplaceInputs == {<<TicketPattern>>, MixedPatterns, WithAllDefaults, ProtoPatterns}

NextPatterns ==
    \/ SetSensitivePatterns(ReplaceInputs, MaxPatternOps)
    \/ AddSensitivePatterns({CustomPatterns}, MaxPatternOps)
    \/ ResetSensitivePatterns(MaxPatternOps)
    \/ SetSensitivePatternWarnings(BOOLEAN, MaxPatternOps)

SpecPatterns == Init /\ [][NextPatterns]_vars

\* the entries of a property list, as a set
EntrySet(props) == {props[i] : i \in 1..Len(props)}

\* some built-in name is absent from the entries
BuiltInAbsent(entries) ==
    \E i \in 1..Len(DEFAULT_SENSITIVE_PATTERNS) :
        \A e \in entries : e.k # DEFAULT_SENSITIVE_PATTERNS[i].k

\* C20 (as stated): when setSensitivePatterns(patterns) returns, the registry
\* holds exactly the entries of patterns whose value is a RegExp, and the call
\* has written exactly one warning if some built-in pattern name is absent
\* from those entries and warnings are not suppressed, and none otherwise.
C20_ReplaceAllKeepsCompiledEntries ==
    [][(nOps' = nOps + 1 /\ last'.op = "setSensitivePatterns")
       => LET kept == {e \in EntrySet(last'.arg.props) : e.v.isRegExp}
          IN  /\ EntrySet(patterns') = kept
              /\ IF BuiltInAbsent(kept) /\ ~suppressWarnings
                 THEN /\ Len(console') = Len(console) + 1
                      /\ SubSeq(console', 1, Len(console)) = console
                      /\ console'[Len(console')].fn = "warn"
                 ELSE console' = console]_vars

-----------------------------------------------------------------------------
(* SpecOptions: loggers constructed with options, and derived loggers *)

MaxOptionOps == 3

KeysOnly == Options(<<>>, <<<<"customSecret", "", "ApiSecret">>>>, <<>>, <<>>)
\* the options of the claim: a built-in name dropped, warnings suppressed
DroppedAndSuppressed == Options(<<>>, <<>>, <<<<TicketPattern>>>>, <<TRUE>>)
DroppedOnly == Options(<<>>, <<>>, <<<<TicketPattern>>>>, <<>>)
MaskingOn == Options(<<TRUE>>, <<>>, <<>>, <<>>)
MaskingOff == Options(<<FALSE>>, <<>>, <<>>, <<>>)
KeysEmpty == Options(<<>>, <<<<>>>>, <<>>, <<>>)
OptionInputs ==
    {NoOptions, KeysOnly, KeysEmpty, DroppedAndSuppressed, DroppedOnly, MaskingOn, MaskingOff}

InitOptions == \E h \in {ProductionHost, DevelopmentHost} : LoadedOn(NoCall, h)

NextOptions ==
    \/ NewWebLogger({"[Secure]"}, OptionInputs, MaxOptionOps)
    \/ WithPrefix({"[Sub]"}, MaxOptionOps)
    \/ SanitizeCall({Ref(2)}, {Instant}, MaxOptionOps)
    \/ LogCall({"error"}, {Str("user@example.com")}, {<<>>}, {Instant}, MaxOptionOps)

SpecOptions == InitOptions /\ [][NextOptions]_vars

\* the step is the constructor, called with options
Constructs(options) ==
    /\ nOps' = nOps + 1
    /\ last'.op = "new WebLogger"
    /\ last'.arg.options = options

\* the entries of patterns, as written, lack some built-in name
DropsBuiltIn(options) ==
    /\ ReplacesPatterns(options)
    /\ BuiltInAbsent({e \in EntrySet(ObjectLiteral(options.sensitivePatterns[1])) : e.v.isRegExp})

\* C21 (as stated): a constructor call whose options replace the patterns so
\* that a built-in name is dropped and set suppressPatternWarnings: true
\* writes no warning to the console.
C21_SuppressedAtConstruction ==
    [][\A options \in OptionInputs :
          (/\ Constructs(options)
           /\ DropsBuiltIn(options)
           /\ options.suppressPatternWarnings = <<TRUE>>)
          => console' = console]_vars

\* C22: a constructor call with a sensitiveKeys option returns with the
\* process-wide key set (the one every instance reads) holding exactly the
\* lower-cased non-empty entries of the option and with both caches empty; a
\* constructor call without the option leaves the key set as it was.
C22_KeysOptionReplaces ==
    [][\A options \in OptionInputs :
          Constructs(options)
          => IF options.sensitiveKeys # <<>>
             THEN /\ sensitiveKeys' =
                        {k \in {ToLowerCase(options.sensitiveKeys[1][i]) :
                                   i \in 1..Len(options.sensitiveKeys[1])} : k # ""}
                  /\ CachesEmpty'
             ELSE sensitiveKeys' = sensitiveKeys]_vars

\* new WebLogger({ sensitiveKeys: ['customSecret', '', 'ApiSecret'] }) after
\* a call that filled the caches
C22_Witness ==
    /\ last.op = "new WebLogger" /\ last.arg.options = KeysOnly
    /\ last.cached > 0
    /\ sensitiveKeys = {"customsecret", "apisecret"}
    /\ CachesEmpty
    /\ Len(loggers) >= 2

\* C29 (as stated): when withPrefix (or createPrefixedLogger, which is
\* withPrefix on the default instance) returns, the new logger masks exactly
\* when the logger it was derived from does.
C29_DerivedLoggerMasksAsParent ==
    [][(nOps' = nOps + 1 /\ last'.op = "withPrefix")
       => loggers'[Len(loggers')].enableMasking = loggers[last'.arg.n].enableMasking]_vars

-----------------------------------------------------------------------------
(* The runtime level (C23), under SpecLog *)

\* currentLogLevel of the instance logger: every instance asks the one manager
CurrentLogLevel(logger) == GetCurrentLogLevel(globalLevel, host)

-----------------------------------------------------------------------------
(* SpecLevels: every logger method under every level *)

MaxLevelOps == 2

OtherMethods == {"log", "group", "groupEnd", "time", "timeEnd"}
\* a string, a plain record, and a Date that holds no valid time
LevelMessages == {Str("user@example.com"), Ref(2), Ref(12)}
Titles == {Str("user@example.com")}
GroupData == {<<>>, <<Ref(2)>>, <<Ref(12)>>}

InitLevels == \E h \in {ProductionHost, DevelopmentHost} : LoadedOn(NoCall, h)

NextLevels ==
    \/ SetLogLevel({"debug", "info", "warn", "error", "none"}, MaxLevelOps)
    \/ LogCall(LogMethods, LevelMessages, {<<>>}, {Instant}, MaxLevelOps)
    \/ MethodCall(OtherMethods, Titles, GroupData, {Instant}, MaxLevelOps)

SpecLevels == InitLevels /\ [][NextLevels]_vars

\* C24 (as stated): a debug, info, warn or error call at level L writes to
\* the console exactly when the active level is not none and L is error or
\* at or above the active level; while the active level is none no method of
\* the logger writes anything.
C24_WritesExactlyWhenEnabled ==
    [][/\ (nOps' = nOps + 1 /\ last'.op \in LogMethods)
          => ((console' # console)
                <=> (/\ ActiveLevel # "none"
                     /\ (last'.op = "error" \/ LevelRank(last'.op) >= LevelRank(ActiveLevel))))
       /\ (nOps' = nOps + 1 /\ last'.op \in LogMethods \cup OtherMethods
              /\ ActiveLevel = "none")
          => console' = console]_vars

-----------------------------------------------------------------------------
(* The object-identity cache across calls (C25), under SpecWalk *)

\* sanitizeLogData(data) as a first call would compute it: both caches empty
Afresh(data) ==
    Sanitize(data, heap, sensitiveKeys, patterns, last.prof, EmptyWeakMap, <<>>).out

IsPlainRecord(v) == IsRef(v) /\ heap[v.id].kind = "rec"

\* C25 (as stated): with the registries unchanged and the regex budget never
\* exceeded, sanitize(o) of an unmodified plain record returns what it
\* returns as a first call, whatever sanitize calls came before.
C25_ResultIndependentOfHistory ==
    (last.op = "sanitize" /\ IsPlainRecord(last.arg)) => last.out = Afresh(last.arg)

-----------------------------------------------------------------------------
(* SpecMutate: records that the host program changes between calls *)

MaxMutateOps == 3

\* two flat records: no nesting, no cycle, no shared member
MutableIds == {2, 7}

NextMutate ==
    \/ SanitizeCall({Ref(id) : id \in MutableIds}, {Instant}, MaxMutateOps)
    \/ AssignProperty(MutableIds, {"note", "extra"}, {Str("a@b.cc"), Str("plain")},
                      MaxMutateOps)
    \/ DeleteProperty(MutableIds, {"note", "normal"}, MaxMutateOps)

SpecMutate == Init /\ [][NextMutate]_vars

\* out holds exactly the properties of the record id, in its order
SameNames(id, out) == out.t = "rec" /\ Keys(out.props) = Keys(heap[id].props)

\* C26 (as stated): a sanitize call on a plain record returns the result for
\* the record's contents at the time of the call (its properties as they are
\* now, each masked as the registries say), also when the record was changed
\* after an earlier call on it.
C26_ReflectsCurrentContents ==
    (last.op = "sanitize" /\ last.arg.id \in MutableIds)
    => /\ SameNames(last.arg.id, last.out)
       /\ \A i \in 1..Len(heap[last.arg.id].props) :
             LET p == heap[last.arg.id].props[i]
             IN  last.out.props[i].v =
                    IF IsSensitive(sensitiveKeys, p.k) THEN MaskOf(p.v, p.k)
                    ELSE Str(ApplyRegexWithTimeout(p.v.s, patterns, Instant))

-----------------------------------------------------------------------------
(* SpecLeak: the strings of the input in the output *)

MaxLeakCalls == 3

LeakRoots == {Ref(2), Ref(7), Ref(17), Ref(21), Ref(22), Ref(23)}

NextLeak == SanitizeCall(LeakRoots, {Instant}, MaxLeakCalls)

SpecLeak == Init /\ [][NextLeak]_vars

\* what the pattern guard and the value masker (under the name k) make of s
ProcessedForms(s, k) ==
    {ApplyRegexWithTimeout(s, patterns, Instant), MaskOf(Str(s), k).s}

\* C27 (as stated): every string of the input that appears in the output has
\* passed through the pattern guard or the value masker.  Checked for the
\* names and the string values of the properties of a plain record and for
\* the name of an Error.
C27_NoStringUnprocessed ==
    (last.op = "sanitize" /\ IsRef(last.arg) /\ last.out.t = "rec")
    => LET o == heap[last.arg.id]
       IN  CASE o.kind = "rec" ->
                  /\ SameNames(last.arg.id, last.out) \/ Len(last.out.props) = Len(o.props)
                  /\ \A i \in 1..Len(o.props) :
                        /\ last.out.props[i].k \in ProcessedForms(o.props[i].k, o.props[i].k)
                        /\ IsStr(o.props[i].v)
                             => last.out.props[i].v.s
                                  \in ProcessedForms(o.props[i].v.s, o.props[i].k)
             [] o.kind = "err" ->
                  Get(last.out.props, "name").s \in ProcessedForms(o.name, "name")
             [] OTHER -> TRUE

-----------------------------------------------------------------------------
(* Results cached from a call that skipped patterns (C28), under Spec *)

\* C28 (as stated): a sanitize call on a plain record during which no
\* pattern is skipped returns the record with every pattern of the registry
\* applied to each string property that the key registry does not match,
\* also when an earlier call on the record ran over the regex budget.
C28_NoPartialResultCached ==
    (last.op = "sanitize" /\ IsPlainRecord(last.arg) /\ last.prof = Instant)
    => /\ SameNames(last.arg.id, last.out)
       /\ \A i \in 1..Len(heap[last.arg.id].props) :
             LET p == heap[last.arg.id].props[i]
             IN  (Walked(p) /\ IsStr(p.v))
                 => last.out.props[i].v = Str(ApplyRegexWithTimeout(p.v.s, patterns, Instant))

-----------------------------------------------------------------------------
(* SpecLive: the map returned by getSensitivePatterns(), changed in place *)

MaxLiveOps == 3

NextLive ==
    \/ SanitizeCall({Ref(7), Ref(2)}, {Instant}, MaxLiveOps)
    \/ AssignLivePattern({Prop("custom", RegExp({"secret123"}))}, MaxLiveOps)
    \/ DeleteLivePattern({"phone", "custom"}, MaxLiveOps)
    \/ AddSensitivePatterns({CustomPatterns}, MaxLiveOps)

SpecLive == Init /\ [][NextLive]_vars

\* C30 (as stated): after a change made in place to the map returned by
\* getSensitivePatterns(), a sanitize call does not take a record's result
\* from a cache entry computed under the old patterns: every string property
\* that the key registry does not match shows the guard's result under the
\* patterns in use.
C30_LiveMapChangeKeepsCacheConsistent ==
    (last.op = "sanitize" /\ IsPlainRecord(last.arg))
    => /\ ~last.staleHit
       /\ \A i \in 1..Len(last.out.props) :
             LET p == heap[last.arg.id].props[i]
             IN  (Walked(p) /\ IsStr(p.v))
                 => last.out.props[i].v = GuardOf(p.v)

====
